---- MODULE Spec2Model ----
(***************************************************************************)
(* A model of cheatron-nthread: the capture of a running x64 thread        *)
(* (CapturedThread, NThread.inject / threadCall), the memset-decomposed    *)
(* memory writer with its read-only snapshot registry (romem), and the    *)
(* zone heap allocator (Heap).                                             *)
(*                                                                         *)
(* The specifications share the module; each moves only its own part of   *)
(* the state.  The main ones:                                              *)
(*   ThreadSpec  the hijack state machine and the target thread            *)
(*   WriteSpec   writeMemory / writeMemoryWithPointer over the registry    *)
(*   HeapSpec    Heap.allocReadonly / alloc / free                         *)
(*   NthSpec     NThreadHeap: proxy.alloc / free / close                   *)
(* The others add operations to one of these (setters, suspend and resume  *)
(* on their own, reallocation, two tasks side by side).                    *)
(***************************************************************************)
EXTENDS Integers, Sequences, FiniteSets, TLC

(***************************************************************************)
(* Bounds of the model.                                                    *)
(***************************************************************************)
\* lowest original Rsp tried, and how many consecutive values above it
RspBase == 65536
RspSpan == 17
\* wait(timeoutMs): polling iterations before TIMEOUT
MaxPoll == 2
\* operations issued on one captured thread after inject
MaxOps == 3
\* direct CapturedThread.suspend() calls left unmatched by the user
MaxSuspend == 2
\* a called function returns Rax in 0..MaxRet
MaxRet == 1

\* the heap block: where calloc put it, and the sizes of its two zones
HeapBase == 16
HeapRoSize == 3
HeapRwSize == 3

\* the remote memory written through the thread: addresses 1..MemSize,
\* bytes 0..MaxByte, buffers up to MaxLen bytes, and the registry's extent
MemSize == 3
MaxByte == 1
MaxLen == 3
MaxRegions == 1
MaxRegionLen == 2
\* memset calls of one write that may come back null
MaxFail == 1
\* the largest allocation made while following a Heap through resets and destroy
MaxLifeAlloc == 2
\* length of the read-only region two tasks write to side by side
RaceLen == 2

\* NThreadHeap(NthHeapSize, NthMaxSize), asked for blocks of NthChunk bytes or
\* of more than NthMaxSize, with at most NthMaxLive of them held at a time,
\* through NthMaxOps calls of proxy.alloc and proxy.free
NthHeapSize == 4
NthMaxSize == 16
NthChunk == 3
NthMaxLive == 5
NthMaxOps == 5
\* calls of proxy.close() on one proxy
NthMaxClose == 2
\* calls of proxy.alloc and proxy.free where reallocations are followed
ReallocMaxOps == 3
\* allocString: strings of up to MaxStrLen characters
MaxStrLen == 2
\* the CRT heap of the target: addresses from CrtBase on
CrtBase == 256

\* src/src/thread/captured-thread.ts:4
STACK_ADD == -8192

VARIABLES
    \* ---- the target thread, as the OS holds it
    alive,          \* the thread has not exited
    osSuspend,      \* the OS suspend count of the thread
    hw,             \* the hardware registers [Rip, Rsp, Reg, Rax, Rcx]
    stackWord,      \* [addr, val]: the word the thread last pushed
    \* ---- CapturedThread fields
    suspendCount,
    savedContext,
    latestContext,
    aliased,        \* savedContext and latestContext are the same object
    callRsp,
    handleOpen,
    \* ---- NThread.inject / threadCall in flight
    pc,             \* position of the orchestrating task
    inj,            \* inject's locals [targetReg, rip, rsp, stackBegin]
    waitCount,      \* wait's `count`
    waitRes,        \* what the last wait returned
    \* ---- observation
    orig,           \* the registers at the moment inject suspended the thread
    lastResult,     \* outcome of the last completed operation
    retVal,         \* the address the last successful threadCall returned
    nSuspendOk,     \* successful OS suspends issued through the captured thread
    nResumeOk,      \* successful OS resumes issued through the captured thread
    ops,
    \* ---- Heap fields
    roOffset,
    rwOffset,
    roFreeList,     \* sequence of [offset, size]
    rwFreeList,
    \* ---- observation of the heap
    live,           \* the allocations handed out and not freed: [addr, size, ro]
    lastHeapOp,     \* [op, ok, addr, size] of the last Heap call
    \* ---- the Heap's tie to the registry and to the target
    romemAt,        \* index in regions of the Heap's romem; 0 once unregistered
    heapCalls,      \* the in-thread calls Heap.create / destroy issued
    \* ---- the target's memory and romem's module-level registry
    mem,            \* remote bytes, by address
    regions,        \* sequence of [remote, local]
    \* ---- observation of the writes
    lastWrite,      \* the last proxy.write: its arguments, calls and results
    allCompleted,   \* no memset of any write so far returned null
    \* ---- NThreadHeap: the ProxyState of one proxy
    state,          \* [heap, prevHeaps, allocations], Null while the map has none
    \* ---- observation of the proxy and of the target's CRT heap
    crtHeap,        \* the CRT blocks allocated and not freed: [addr, size]
    handed,         \* what proxy.alloc returned and proxy.free has not taken: [addr, size, ro]
    nthOp,          \* the last proxy operation
    proxyLog,       \* the Heaps created and destroyed and the closes of the captured thread
    \* ---- observation of allocString
    strCall,        \* the last allocString: [done, str, encoding, ptr, size]
    \* ---- tasks of the event loop that run side by side
    writers,        \* per task of a writeMemory: its position and locals
    callers         \* per task of a threadCall: its position and locals

threadVars == << alive, osSuspend, hw, stackWord, suspendCount, savedContext,
                 latestContext, aliased, callRsp, handleOpen, pc, inj,
                 waitCount, waitRes, orig, lastResult, retVal, nSuspendOk,
                 nResumeOk, ops >>

heapVars == << roOffset, rwOffset, roFreeList, rwFreeList, live, lastHeapOp >>

heapLinkVars == << romemAt, heapCalls >>

writeVars == << mem, regions, lastWrite, allCompleted >>

nthVars == << state, crtHeap, handed, nthOp, proxyLog >>

strVars == << strCall >>

taskVars == << writers, callers >>

vars == << threadVars, heapVars, heapLinkVars, writeVars, nthVars, strVars, taskVars >>

\* what each part of the model leaves alone
otherThanThread == << heapVars, heapLinkVars, writeVars, nthVars, strVars, taskVars >>
otherThanHeap == << threadVars, heapLinkVars, writeVars, nthVars, strVars, taskVars >>
otherThanWrite == << threadVars, heapVars, heapLinkVars, nthVars, strVars, taskVars >>
otherThanNth == << threadVars, heapVars, heapLinkVars, mem, lastWrite, allCompleted,
                   strVars, taskVars >>
otherThanCallers == << heapVars, heapLinkVars, writeVars, nthVars, strVars, writers >>
otherThanString == << threadVars, heapVars, heapLinkVars, state, handed, nthOp,
                      proxyLog, taskVars >>

(***************************************************************************)
(* Addresses of code are symbolic; stack addresses are integers.           *)
(***************************************************************************)
sleepAddress == "sleep"         \* the 'jmp .' gadget
pushretAddress == "pushret"     \* the 'push reg; ret' gadget
pushretRet == "pushret+1"       \* its 'ret' instruction
Targets == {"fnRet", "fnExit"}  \* a function that returns, and ExitThread

NoCtx == [none |-> TRUE]

\* Native.stackAlign16: align down to a multiple of 16
stackAlign16(x) == x - (x % 16)

\* variant: the scratch stack is lowered but not aligned
calcStackBeginUnaligned(baseRsp) == baseRsp + STACK_ADD

calcStackBegin(baseRsp) == stackAlign16(baseRsp + STACK_ADD)

(***************************************************************************)
(* The target thread: one instruction (or one whole function body) per     *)
(* step, only while it lives and is not suspended.                         *)
(***************************************************************************)
Runs == alive /\ osSuspend = 0

\* push reg
ThreadPush ==
    /\ Runs
    /\ hw.Rip = pushretAddress
    /\ stackWord' = [addr |-> hw.Rsp - 8, val |-> hw.Reg]
    /\ hw' = [hw EXCEPT !.Rsp = hw.Rsp - 8, !.Rip = pushretRet]
    /\ UNCHANGED << otherThanThread, alive, osSuspend, suspendCount, savedContext, latestContext,
                    aliased, callRsp, handleOpen, pc, inj, waitCount, waitRes,
                    orig, lastResult, retVal, nSuspendOk, nResumeOk, ops >>

\* the word a 'ret' at stack pointer rsp pops
Popped(rsp) == IF stackWord.addr = rsp THEN stackWord.val ELSE "wild"

\* ret
ThreadRet ==
    /\ Runs
    /\ hw.Rip = pushretRet
    /\ hw' = [hw EXCEPT !.Rip = Popped(hw.Rsp), !.Rsp = hw.Rsp + 8]
    /\ UNCHANGED << otherThanThread, alive, osSuspend, stackWord, suspendCount, savedContext,
                    latestContext, aliased, callRsp, handleOpen, pc, inj,
                    waitCount, waitRes, orig, lastResult, retVal, nSuspendOk,
                    nResumeOk, ops >>

\* a called function runs to its 'ret', leaving its result in Rax
ThreadReturn ==
    /\ Runs
    /\ hw.Rip = "fnRet"
    /\ \E r \in 0..MaxRet :
         hw' = [hw EXCEPT !.Rax = r, !.Rip = Popped(hw.Rsp), !.Rsp = hw.Rsp + 8]
    /\ UNCHANGED << otherThanThread, alive, osSuspend, stackWord, suspendCount, savedContext,
                    latestContext, aliased, callRsp, handleOpen, pc, inj,
                    waitCount, waitRes, orig, lastResult, retVal, nSuspendOk,
                    nResumeOk, ops >>

\* ExitThread
ThreadExit ==
    /\ Runs
    /\ hw.Rip = "fnExit"
    /\ alive' = FALSE
    /\ UNCHANGED << otherThanThread, osSuspend, hw, stackWord, suspendCount, savedContext,
                    latestContext, aliased, callRsp, handleOpen, pc, inj,
                    waitCount, waitRes, orig, lastResult, retVal, nSuspendOk,
                    nResumeOk, ops >>

(***************************************************************************)
(* CapturedThread                                                          *)
(***************************************************************************)
\* CapturedThread.suspend on a living thread: [os, count, n]
suspend(os, count, n) == [os |-> os + 1, count |-> count + 1, n |-> n + 1]

\* variant: the counter follows the call, whatever its result
resumeUnchecked(os, count, n) ==
    IF os > 0 THEN [os |-> os - 1, count |-> count - 1, n |-> n + 1]
              ELSE [os |-> os, count |-> count - 1, n |-> n]

\* CapturedThread.resume on a living thread: the OS resumes only a suspended
\* thread, and only then is the result truthy
resume(os, count, n) ==
    IF os > 0 THEN [os |-> os - 1, count |-> count - 1, n |-> n + 1]
              ELSE [os |-> os, count |-> count, n |-> n]

\* super.getContext(): a fresh object holding the hardware registers
fetched(flags) == [Rip |-> hw.Rip, Rsp |-> hw.Rsp, Reg |-> hw.Reg,
                   Rax |-> hw.Rax, Rcx |-> hw.Rcx, ContextFlags |-> flags]

\* super.setContext(ctx): the registers ctx carries
applied(ctx) == [Rip |-> ctx.Rip, Rsp |-> ctx.Rsp, Reg |-> ctx.Reg,
                 Rax |-> ctx.Rax, Rcx |-> ctx.Rcx]

(***************************************************************************)
(* NThread.inject, up to the wait                                          *)
(***************************************************************************)
InjectStart ==
    /\ pc = "new"
    /\ alive
    /\ LET s   == suspend(osSuspend, suspendCount, nSuspendOk)
           c0  == fetched("ALL")
           sb  == calcStackBegin(c0.Rsp)
           c1  == [c0 EXCEPT !.Rip = pushretAddress, !.Rsp = sb,
                             !.Reg = sleepAddress]
           r   == resume(s.os, s.count, nResumeOk)
       IN /\ inj' = [targetReg |-> c0.Reg, rip |-> c0.Rip, rsp |-> c0.Rsp,
                     stackBegin |-> sb]
          /\ orig' = [Rip |-> hw.Rip, Rsp |-> hw.Rsp, Reg |-> hw.Reg]
          /\ callRsp' = sb - 8
          \* savedContext = getContext(): the setters below write through it
          /\ latestContext' = c1
          /\ savedContext' = c1
          /\ aliased' = TRUE
          /\ hw' = applied(c1)
          /\ osSuspend' = r.os
          /\ suspendCount' = r.count
          /\ nSuspendOk' = s.n
          /\ nResumeOk' = r.n
    /\ handleOpen' = TRUE
    /\ pc' = "injectWait"
    /\ waitCount' = 0
    /\ waitRes' = "none"
    /\ UNCHANGED << otherThanThread, alive, stackWord, lastResult, retVal, ops >>

(***************************************************************************)
(* CapturedThread.wait: one polling iteration, or the loop's exit          *)
(***************************************************************************)
\* variant: wait accepts any Rip off the thread's original code
landedOffOrig(ctx) == ctx.Rip # "orig"

\* wait's test of a fetched context: the thread reached the sleep gadget
landed(ctx) == ctx.Rip = sleepAddress

Waiting == pc \in {"injectWait", "callWait"}
Returned == IF pc = "injectWait" THEN "injectRet" ELSE "callRet"

\* one iteration of wait's loop in which fetchContext succeeds
WaitPoll ==
    /\ Waiting
    /\ waitCount < MaxPoll
    /\ alive
    /\ latestContext' = fetched("ALL")
    /\ aliased' = FALSE
    /\ IF landed(fetched("ALL"))
       THEN /\ waitRes' = "OBJECT_0"
            /\ pc' = Returned
            /\ waitCount' = waitCount
       ELSE /\ waitCount' = waitCount + 1
            /\ UNCHANGED << waitRes, pc >>
    /\ UNCHANGED << otherThanThread, alive, osSuspend, hw, stackWord, suspendCount, savedContext,
                    callRsp, handleOpen, inj, orig, lastResult, retVal,
                    nSuspendOk, nResumeOk, ops >>

\* what super.wait(0) can report: the exit of the thread (OBJECT_0), no exit
\* yet (TIMEOUT), or a failed wait (FAILED)
OsWaits == {"OBJECT_0", "TIMEOUT", "FAILED"}

\* variant: the report of the OS wait surfaced as it is
probedRaw(res) == res

\* the catch branch of wait: an exit is FAILED, any other report is surfaced
probed(res) == IF res = "OBJECT_0" THEN "FAILED" ELSE res

\* one iteration of wait's loop in which fetchContext throws and
\* super.wait(0) reports res: fetching the context of an exited thread
\* fails, that of a living thread may fail
WaitFetchFails(res) ==
    /\ Waiting
    /\ waitCount < MaxPoll
    /\ res = "OBJECT_0" <=> ~alive
    /\ waitRes' = probed(res)
    /\ pc' = Returned
    /\ UNCHANGED << otherThanThread, alive, osSuspend, hw, stackWord, suspendCount, savedContext,
                    latestContext, aliased, waitCount,
                    callRsp, handleOpen, inj, orig, lastResult, retVal,
                    nSuspendOk, nResumeOk, ops >>

WaitTimeout ==
    /\ Waiting
    /\ waitCount >= MaxPoll
    /\ waitRes' = "TIMEOUT"
    /\ pc' = Returned
    /\ UNCHANGED << otherThanThread, alive, osSuspend, hw, stackWord, suspendCount, savedContext,
                    latestContext, aliased, callRsp, handleOpen, inj, waitCount,
                    orig, lastResult, retVal, nSuspendOk, nResumeOk, ops >>

(***************************************************************************)
(* NThread.inject, after the wait                                          *)
(***************************************************************************)
\* variant: inject puts back Rip and the pivot register, not Rsp
restoredNoRsp(ctx) == [ctx EXCEPT !.Reg = inj.targetReg, !.Rip = inj.rip,
                                  !.ContextFlags = "INTCTL"]

\* the context release() is to restore
restored(ctx) == [ctx EXCEPT !.Reg = inj.targetReg, !.Rip = inj.rip,
                             !.Rsp = inj.rsp, !.ContextFlags = "INTCTL"]

InjectFinish ==
    /\ pc = "injectRet"
    /\ IF waitRes # "OBJECT_0"
       THEN /\ pc' = "injectFailed"
            /\ lastResult' = "InjectTimeout"
            /\ UNCHANGED << savedContext, latestContext, aliased >>
       ELSE \* savedContext = getContext(): one object again
            /\ savedContext' = restored(latestContext)
            /\ latestContext' = restored(latestContext)
            /\ aliased' = TRUE
            /\ pc' = "idle"
            /\ lastResult' = "injected"
    /\ UNCHANGED << otherThanThread, alive, osSuspend, hw, stackWord, suspendCount, callRsp,
                    handleOpen, inj, waitCount, waitRes, orig, retVal,
                    nSuspendOk, nResumeOk, ops >>

(***************************************************************************)
(* NThread.threadCall                                                      *)
(***************************************************************************)
\* the context a call applies
callContext(ctx, target, arg) ==
    [ctx EXCEPT !.Rcx = arg, !.Rip = target, !.Rsp = callRsp]

\* variant: the safety check is missing
ripMismatchNever(ctx) == FALSE

\* the safety check: the fetched Rip is not the sleep address
ripMismatch(ctx) == ctx.Rip # sleepAddress

ThreadCallStart(target, arg) ==
    /\ pc = "idle"
    /\ ops < MaxOps
    /\ ops' = ops + 1
    /\ waitRes' = "none"
    /\ IF ~alive
       THEN \* suspend / fetchContext fail on a thread that exited
            /\ lastResult' = "NativeError"
            /\ UNCHANGED << osSuspend, hw, suspendCount, latestContext, aliased,
                            pc, waitCount, nSuspendOk, nResumeOk >>
       ELSE LET s == suspend(osSuspend, suspendCount, nSuspendOk)
                c == fetched("ALL")
                r == resume(s.os, s.count, nResumeOk)
            IN /\ aliased' = FALSE
               /\ osSuspend' = r.os
               /\ suspendCount' = r.count
               /\ nSuspendOk' = s.n
               /\ nResumeOk' = r.n
               /\ IF ripMismatch(c)
                  THEN /\ latestContext' = c
                       /\ lastResult' = "RipMismatch"
                       /\ UNCHANGED << hw, pc, waitCount >>
                  ELSE /\ latestContext' = callContext(c, target, arg)
                       /\ hw' = applied(callContext(c, target, arg))
                       /\ pc' = "callWait"
                       /\ waitCount' = 0
                       /\ lastResult' = "calling"
    /\ UNCHANGED << otherThanThread, alive, stackWord, savedContext, callRsp, handleOpen, inj,
                    orig, retVal >>

\* variant: the FAILED test is missing
callOutcomeNoDied(res) == IF res # "OBJECT_0" THEN "CallTimeout" ELSE "ok"

\* what threadCall makes of wait's result
callOutcome(res) ==
    IF res = "FAILED" THEN "ThreadDied"
    ELSE IF res # "OBJECT_0" THEN "CallTimeout"
    ELSE "ok"

ThreadCallFinish ==
    /\ pc = "callRet"
    /\ pc' = "idle"
    /\ lastResult' = callOutcome(waitRes)
    /\ retVal' = IF callOutcome(waitRes) = "ok" THEN latestContext.Rax ELSE retVal
    /\ UNCHANGED << otherThanThread, alive, osSuspend, hw, stackWord, suspendCount, savedContext,
                    latestContext, aliased, callRsp, handleOpen, inj, waitCount,
                    waitRes, orig, nSuspendOk, nResumeOk, ops >>

(***************************************************************************)
(* CapturedThread.release / close / suspend                                *)
(***************************************************************************)
\* a release() that suspends and never resumes
releaseHeld(os, count, nS, nR) ==
    LET s == suspend(os, count, nS)
    IN [os |-> s.os, count |-> s.count, nS |-> s.n, nR |-> nR]

\* release() on a living thread: [os, count, nS, nR]
release(os, count, nS, nR) ==
    LET s == suspend(os, count, nS)
        r == resume(s.os, s.count, nR)
    IN [os |-> r.os, count |-> r.count, nS |-> s.n, nR |-> r.n]

Release ==
    /\ pc = "idle"
    /\ ops < MaxOps
    /\ ops' = ops + 1
    /\ waitRes' = "none"
    /\ IF alive
       THEN LET x == release(osSuspend, suspendCount, nSuspendOk, nResumeOk)
            IN /\ latestContext' = savedContext
               /\ aliased' = TRUE
               /\ hw' = applied(savedContext)
               /\ osSuspend' = x.os
               /\ suspendCount' = x.count
               /\ nSuspendOk' = x.nS
               /\ nResumeOk' = x.nR
               /\ lastResult' = IF lastResult \in {"released", "releasedAgain"}
                                THEN "releasedAgain" ELSE "released"
       ELSE \* suspend throws, or returns falsy and applyContext throws
            /\ \E threw \in BOOLEAN :
                 IF threw THEN UNCHANGED << latestContext, aliased >>
                          ELSE /\ latestContext' = savedContext
                               /\ aliased' = TRUE
            /\ lastResult' = "NativeError"
            /\ UNCHANGED << hw, osSuspend, suspendCount, nSuspendOk, nResumeOk >>
    /\ UNCHANGED << otherThanThread, alive, stackWord, savedContext, callRsp, handleOpen, pc,
                    inj, waitCount, orig, retVal >>

\* variant: the loop calls this.resume(), which lowers suspendCount under it
RECURSIVE drainCounted(_, _, _, _)
drainCounted(i, count, os, nR) ==
    IF i < count
    THEN drainCounted(i + 1, IF os > 0 THEN count - 1 ELSE count,
                      IF os > 0 THEN os - 1 ELSE os,
                      IF os > 0 THEN nR + 1 ELSE nR)
    ELSE [os |-> os, nR |-> nR]

\* close()'s loop: `for (i = 0; i < suspendCount; i++) super.resume()`,
\* on a living thread: [os, nR] after the loop
RECURSIVE drain(_, _, _, _)
drain(i, count, os, nR) ==
    IF i < count
    THEN drain(i + 1, count, IF os > 0 THEN os - 1 ELSE os,
               IF os > 0 THEN nR + 1 ELSE nR)
    ELSE [os |-> os, nR |-> nR]

\* close(): [os, nS, nR] once the handle is closed
close(os, count, nS, nR) ==
    IF alive
    THEN LET x == release(os, count, nS, nR)
             d == drain(0, x.count, x.os, x.nR)
         IN [os |-> d.os, nS |-> x.nS, nR |-> d.nR]
    ELSE [os |-> os, nS |-> nS, nR |-> nR]

Close ==
    /\ pc = "idle"
    /\ LET x == close(osSuspend, suspendCount, nSuspendOk, nResumeOk)
       IN /\ osSuspend' = x.os
          /\ nSuspendOk' = x.nS
          /\ nResumeOk' = x.nR
    /\ IF alive
       THEN /\ hw' = applied(savedContext)
            /\ latestContext' = savedContext
            /\ aliased' = TRUE
       ELSE /\ \E threw \in BOOLEAN :
                 IF threw THEN UNCHANGED << latestContext, aliased >>
                          ELSE /\ latestContext' = savedContext
                               /\ aliased' = TRUE
            /\ UNCHANGED hw
    /\ suspendCount' = 0
    /\ handleOpen' = FALSE
    /\ pc' = "closed"
    /\ lastResult' = "closed"
    /\ waitRes' = "none"
    /\ UNCHANGED << otherThanThread, alive, stackWord, savedContext, callRsp, inj, waitCount,
                    orig, retVal, ops >>

\* the released thread runs its own code on: it pushes a word or pops it
\* again, and it changes the register inject took as pivot
ThreadRun ==
    /\ Runs
    /\ handleOpen
    /\ hw.Rip = "orig"
    /\ \E rsp \in {orig.Rsp, orig.Rsp - 8}, reg \in {orig.Reg, "ownReg"} :
          /\ << rsp, reg >> # << hw.Rsp, hw.Reg >>
          /\ hw' = [hw EXCEPT !.Rsp = rsp, !.Reg = reg]
    /\ UNCHANGED << otherThanThread, alive, osSuspend, stackWord, suspendCount, savedContext,
                    latestContext, aliased, callRsp, handleOpen, pc, inj,
                    waitCount, waitRes, orig, lastResult, retVal, nSuspendOk,
                    nResumeOk, ops >>

\* the registers setRIP, setRSP and setTargetReg write
Setters == {"Rip", "Rsp", "Reg"}

\* a value handed to a setter: an address of code for Rip and the pivot
\* register, a stack address for Rsp
SetterValue(f) == IF f = "Rsp" THEN RspBase ELSE "fnRet"

\* ctx[f] = v on the object getContext() returns
written(ctx, f, v) ==
    IF f = "Rip" THEN [ctx EXCEPT !.Rip = v]
    ELSE IF f = "Rsp" THEN [ctx EXCEPT !.Rsp = v]
    ELSE [ctx EXCEPT !.Reg = v]

\* setRIP / setRSP / setTargetReg by the owner of the captured thread, after
\* inject: ctx = getContext(); ctx[f] = v; setContext(ctx).  The object is
\* latestContext itself; where savedContext is that same object the
\* assignment shows through it
SetRegister(f) ==
    /\ pc = "idle"
    /\ handleOpen
    /\ ops < MaxOps
    /\ ops' = ops + 1
    /\ latestContext' = written(latestContext, f, SetterValue(f))
    /\ savedContext' = IF aliased THEN written(savedContext, f, SetterValue(f))
                       ELSE savedContext
    /\ lastResult' = "set"
    /\ UNCHANGED << otherThanThread, alive, osSuspend, hw, stackWord, suspendCount,
                    aliased, callRsp, handleOpen, pc, inj, waitCount, waitRes,
                    orig, retVal, nSuspendOk, nResumeOk >>

\* a direct CapturedThread.suspend() by the owner of the captured thread
Suspend ==
    /\ pc = "idle"
    /\ alive
    /\ suspendCount < MaxSuspend
    /\ LET s == suspend(osSuspend, suspendCount, nSuspendOk)
       IN /\ osSuspend' = s.os
          /\ suspendCount' = s.count
          /\ nSuspendOk' = s.n
    /\ UNCHANGED << otherThanThread, alive, hw, stackWord, savedContext, latestContext, aliased,
                    callRsp, handleOpen, pc, inj, waitCount, waitRes, orig,
                    lastResult, retVal, nResumeOk, ops >>

\* CapturedThread.suspend where super.suspend returns a falsy result
suspendFailed(os, count, n) == [os |-> os, count |-> count, n |-> n]

(***************************************************************************)
(* inject, threadCall and release where the OS refuses the suspend: the    *)
(* result of suspend() is not looked at, and the rest runs as written      *)
(***************************************************************************)
\* release() on a living thread whose suspend is refused: [os, count, nS, nR]
releaseRefused(os, count, nS, nR) ==
    LET s == suspendFailed(os, count, nS)
        r == resume(s.os, s.count, nR)
    IN [os |-> r.os, count |-> r.count, nS |-> s.n, nR |-> r.n]

InjectSuspendRefused ==
    /\ pc = "new"
    /\ alive
    /\ LET s   == suspendFailed(osSuspend, suspendCount, nSuspendOk)
           c0  == fetched("ALL")
           sb  == calcStackBegin(c0.Rsp)
           c1  == [c0 EXCEPT !.Rip = pushretAddress, !.Rsp = sb,
                             !.Reg = sleepAddress]
           r   == resume(s.os, s.count, nResumeOk)
       IN /\ inj' = [targetReg |-> c0.Reg, rip |-> c0.Rip, rsp |-> c0.Rsp,
                     stackBegin |-> sb]
          /\ orig' = [Rip |-> hw.Rip, Rsp |-> hw.Rsp, Reg |-> hw.Reg]
          /\ callRsp' = sb - 8
          \* savedContext = getContext(): the setters below write through it
          /\ latestContext' = c1
          /\ savedContext' = c1
          /\ aliased' = TRUE
          /\ hw' = applied(c1)
          /\ osSuspend' = r.os
          /\ suspendCount' = r.count
          /\ nSuspendOk' = s.n
          /\ nResumeOk' = r.n
    /\ handleOpen' = TRUE
    /\ pc' = "injectWait"
    /\ waitCount' = 0
    /\ waitRes' = "none"
    /\ UNCHANGED << otherThanThread, alive, stackWord, lastResult, retVal, ops >>

ThreadCallSuspendRefused(target, arg) ==
    /\ pc = "idle"
    /\ alive
    /\ ops < MaxOps
    /\ ops' = ops + 1
    /\ waitRes' = "none"
    /\ IF ~alive
       THEN \* suspend / fetchContext fail on a thread that exited
            /\ lastResult' = "NativeError"
            /\ UNCHANGED << osSuspend, hw, suspendCount, latestContext, aliased,
                            pc, waitCount, nSuspendOk, nResumeOk >>
       ELSE LET s == suspendFailed(osSuspend, suspendCount, nSuspendOk)
                c == fetched("ALL")
                r == resume(s.os, s.count, nResumeOk)
            IN /\ aliased' = FALSE
               /\ osSuspend' = r.os
               /\ suspendCount' = r.count
               /\ nSuspendOk' = s.n
               /\ nResumeOk' = r.n
               /\ IF ripMismatch(c)
                  THEN /\ latestContext' = c
                       /\ lastResult' = "RipMismatch"
                       /\ UNCHANGED << hw, pc, waitCount >>
                  ELSE /\ latestContext' = callContext(c, target, arg)
                       /\ hw' = applied(callContext(c, target, arg))
                       /\ pc' = "callWait"
                       /\ waitCount' = 0
                       /\ lastResult' = "calling"
    /\ UNCHANGED << otherThanThread, alive, stackWord, savedContext, callRsp, handleOpen, inj,
                    orig, retVal >>

ReleaseSuspendRefused ==
    /\ pc = "idle"
    /\ alive
    /\ ops < MaxOps
    /\ ops' = ops + 1
    /\ waitRes' = "none"
    /\ IF alive
       THEN LET x == releaseRefused(osSuspend, suspendCount, nSuspendOk, nResumeOk)
            IN /\ latestContext' = savedContext
               /\ aliased' = TRUE
               /\ hw' = applied(savedContext)
               /\ osSuspend' = x.os
               /\ suspendCount' = x.count
               /\ nSuspendOk' = x.nS
               /\ nResumeOk' = x.nR
               /\ lastResult' = IF lastResult \in {"released", "releasedAgain"}
                                THEN "releasedAgain" ELSE "released"
       ELSE \* suspend throws, or returns falsy and applyContext throws
            /\ \E threw \in BOOLEAN :
                 IF threw THEN UNCHANGED << latestContext, aliased >>
                          ELSE /\ latestContext' = savedContext
                               /\ aliased' = TRUE
            /\ lastResult' = "NativeError"
            /\ UNCHANGED << hw, osSuspend, suspendCount, nSuspendOk, nResumeOk >>
    /\ UNCHANGED << otherThanThread, alive, stackWord, savedContext, callRsp, handleOpen, pc,
                    inj, waitCount, orig, retVal >>

\* thread.resume() called on its own, on a parked thread
Resume ==
    /\ pc = "idle"
    /\ alive
    /\ ops < MaxOps
    /\ ops' = ops + 1
    /\ LET r == resume(osSuspend, suspendCount, nResumeOk)
       IN /\ osSuspend' = r.os
          /\ suspendCount' = r.count
          /\ nResumeOk' = r.n
          /\ lastResult' = IF r.n > nResumeOk THEN "resumed" ELSE "resumeFailed"
    /\ UNCHANGED << otherThanThread, alive, hw, stackWord, savedContext, latestContext, aliased,
                    callRsp, handleOpen, pc, inj, waitCount, waitRes, orig,
                    retVal, nSuspendOk >>

\* thread.suspend() called on its own, the OS refusing it
SuspendFails ==
    /\ pc = "idle"
    /\ alive
    /\ ops < MaxOps
    /\ ops' = ops + 1
    /\ LET s == suspendFailed(osSuspend, suspendCount, nSuspendOk)
       IN /\ osSuspend' = s.os
          /\ suspendCount' = s.count
          /\ nSuspendOk' = s.n
    /\ lastResult' = "suspendFailed"
    /\ UNCHANGED << otherThanThread, alive, hw, stackWord, savedContext, latestContext, aliased,
                    callRsp, handleOpen, pc, inj, waitCount, waitRes, orig,
                    retVal, nResumeOk >>

(***************************************************************************)
(* Heap: one block [base, base + totalSize), a readonly zone followed by a *)
(* readwrite zone, each with a bump offset and a free list.  Free-list     *)
(* indices are 1-based here; 0 stands for the code's -1.                   *)
(***************************************************************************)
totalSize == HeapRoSize + HeapRwSize
roSize == HeapRoSize
rwSize == HeapRwSize
base == HeapBase

\* Heap.findFreeBlock: first block of at least `size`
RECURSIVE findFrom(_, _, _)
findFrom(freeList, size, i) ==
    IF i > Len(freeList) THEN 0
    ELSE IF freeList[i].size >= size THEN i
    ELSE findFrom(freeList, size, i + 1)

\* variant: the last block of at least `size`
findFreeBlockLast(freeList, size) ==
    LET fits == {i \in 1..Len(freeList) : freeList[i].size >= size}
    IN IF fits = {} THEN 0 ELSE CHOOSE i \in fits : \A j \in fits : j <= i

findFreeBlock(freeList, size) == findFrom(freeList, size, 1)

\* the sequence without its element at index i
RemoveAt(seq, i) == SubSeq(seq, 1, i - 1) \o SubSeq(seq, i + 1, Len(seq))

\* the sequence with x spliced in so that it becomes element i
InsertAt(seq, i, x) == SubSeq(seq, 1, i - 1) \o << x >> \o SubSeq(seq, i, Len(seq))

\* variant: the block taken from stays on the free list as it is
splitFreeBlockKept(freeList, index, size) ==
    [freeList |-> freeList, offset |-> freeList[index].offset]

\* Heap.splitFreeBlock: [freeList, offset]
splitFreeBlock(freeList, index, size) ==
    LET block == freeList[index]
        remainder == block.size - size
    IN [freeList |->
            IF remainder > 0
            THEN [freeList EXCEPT ![index] =
                     [offset |-> block.offset + size, size |-> remainder]]
            ELSE RemoveAt(freeList, index),
        offset |-> block.offset]

\* insertAndCoalesce's search: the first index whose block starts at or
\* after `offset`
RECURSIVE insertPoint(_, _, _)
insertPoint(freeList, offset, i) ==
    IF i <= Len(freeList) /\ freeList[i].offset < offset
    THEN insertPoint(freeList, offset, i + 1)
    ELSE i

\* merge element k with the block after it
mergeNext(freeList, k) ==
    IF k + 1 <= Len(freeList)
       /\ freeList[k].offset + freeList[k].size = freeList[k + 1].offset
    THEN RemoveAt([freeList EXCEPT ![k].size = @ + freeList[k + 1].size], k + 1)
    ELSE freeList

\* variant: a freed block is never merged into the block before it
mergePrevNever(freeList, k) == freeList

\* merge element k into the block before it
mergePrev(freeList, k) ==
    IF k > 1
       /\ freeList[k - 1].offset + freeList[k - 1].size = freeList[k].offset
    THEN RemoveAt([freeList EXCEPT ![k - 1].size = @ + freeList[k].size], k)
    ELSE freeList

\* Heap.insertAndCoalesce
insertAndCoalesce(freeList, offset, size) ==
    LET k == insertPoint(freeList, offset, 1)
        inserted == InsertAt(freeList, k, [offset |-> offset, size |-> size])
    IN mergePrev(mergeNext(inserted, k), k)

\* the result of an allocation call
Thrown(why) == [ok |-> FALSE, why |-> why]

\* variant: the bump test of the readonly zone uses the size of the block
roBumpFitsBlock(size) == roOffset + size <= totalSize

\* allocReadonly's bump test
roBumpFits(size) == roOffset + size <= roSize

\* Heap.allocReadonly: what it returns and the fields it leaves
allocReadonly(size) ==
    IF size <= 0 THEN Thrown("invalid size")
    ELSE LET freeIdx == findFreeBlock(roFreeList, size)
         IN IF freeIdx # 0
            THEN LET sp == splitFreeBlock(roFreeList, freeIdx, size)
                 IN [ok |-> TRUE, addr |-> base + sp.offset, size |-> size,
                     offset |-> roOffset, freeList |-> sp.freeList]
            ELSE IF ~roBumpFits(size) THEN Thrown("exhausted")
            ELSE [ok |-> TRUE, addr |-> base + roOffset, size |-> size,
                  offset |-> roOffset + size, freeList |-> roFreeList]

\* Heap.alloc
alloc(size) ==
    IF size <= 0 THEN Thrown("invalid size")
    ELSE LET freeIdx == findFreeBlock(rwFreeList, size)
         IN IF freeIdx # 0
            THEN LET sp == splitFreeBlock(rwFreeList, freeIdx, size)
                 IN [ok |-> TRUE, addr |-> base + roSize + sp.offset,
                     size |-> size, offset |-> rwOffset,
                     freeList |-> sp.freeList]
            ELSE IF rwOffset + size > rwSize THEN Thrown("exhausted")
            ELSE [ok |-> TRUE, addr |-> base + roSize + rwOffset,
                  size |-> size, offset |-> rwOffset + size,
                  freeList |-> rwFreeList]

\* variant: every address from the end of the readonly zone on is readwrite
freeNoUpperBound(addr, size) ==
    LET roEnd == base + roSize
    IN IF addr >= base /\ addr < roEnd
       THEN [ok |-> TRUE, ro |-> TRUE,
             freeList |-> insertAndCoalesce(roFreeList, addr - base, size)]
       ELSE IF addr >= roEnd
       THEN [ok |-> TRUE, ro |-> FALSE,
             freeList |-> insertAndCoalesce(rwFreeList, addr - roEnd, size)]
       ELSE Thrown("does not belong to this heap")

\* Heap.free: the zone the address falls in and that zone's new free list
free(addr, size) ==
    LET roEnd == base + roSize
        rwEnd == roEnd + rwSize
    IN IF addr >= base /\ addr < roEnd
       THEN [ok |-> TRUE, ro |-> TRUE,
             freeList |-> insertAndCoalesce(roFreeList, addr - base, size)]
       ELSE IF addr >= roEnd /\ addr < rwEnd
       THEN [ok |-> TRUE, ro |-> FALSE,
             freeList |-> insertAndCoalesce(rwFreeList, addr - roEnd, size)]
       ELSE Thrown("does not belong to this heap")

Sizes == 0..totalSize

AllocReadonly(size) ==
    /\ LET r == allocReadonly(size)
       IN IF r.ok
          THEN /\ roOffset' = r.offset
               /\ roFreeList' = r.freeList
               /\ live' = live \cup {[addr |-> r.addr, size |-> size, ro |-> TRUE]}
               /\ lastHeapOp' = [op |-> "allocReadonly", ok |-> TRUE,
                                 addr |-> r.addr, size |-> size]
          ELSE /\ lastHeapOp' = [op |-> "allocReadonly", ok |-> FALSE,
                                 addr |-> 0, size |-> size]
               /\ UNCHANGED << roOffset, roFreeList, live >>
    /\ UNCHANGED << rwOffset, rwFreeList >>
    /\ UNCHANGED otherThanHeap

Alloc(size) ==
    /\ LET r == alloc(size)
       IN IF r.ok
          THEN /\ rwOffset' = r.offset
               /\ rwFreeList' = r.freeList
               /\ live' = live \cup {[addr |-> r.addr, size |-> size, ro |-> FALSE]}
               /\ lastHeapOp' = [op |-> "alloc", ok |-> TRUE,
                                 addr |-> r.addr, size |-> size]
          ELSE /\ lastHeapOp' = [op |-> "alloc", ok |-> FALSE,
                                 addr |-> 0, size |-> size]
               /\ UNCHANGED << rwOffset, rwFreeList, live >>
    /\ UNCHANGED << roOffset, roFreeList >>
    /\ UNCHANGED otherThanHeap

\* Heap.free of a live allocation, with the size it was handed out with
Free(a) ==
    /\ a \in live
    /\ LET r == free(a.addr, a.size)
       IN IF r.ok
          THEN /\ IF r.ro
                  THEN roFreeList' = r.freeList /\ UNCHANGED rwFreeList
                  ELSE rwFreeList' = r.freeList /\ UNCHANGED roFreeList
               /\ live' = live \ {a}
               /\ lastHeapOp' = [op |-> "free", ok |-> TRUE, addr |-> a.addr,
                                 size |-> a.size]
          ELSE /\ lastHeapOp' = [op |-> "free", ok |-> FALSE, addr |-> a.addr,
                                 size |-> a.size]
               /\ UNCHANGED << roFreeList, rwFreeList, live >>
    /\ UNCHANGED << roOffset, rwOffset >>
    /\ UNCHANGED otherThanHeap

\* addresses next to the block that are not part of it
Foreign == {base - 1, base + totalSize, base + totalSize + 1}

\* Heap.free of a HeapAlloc that some other allocator handed out
FreeForeign(addr, size) ==
    /\ LET r == free(addr, size)
       IN IF r.ok
          THEN /\ IF r.ro
                  THEN roFreeList' = r.freeList /\ UNCHANGED rwFreeList
                  ELSE rwFreeList' = r.freeList /\ UNCHANGED roFreeList
               /\ lastHeapOp' = [op |-> "free", ok |-> TRUE, addr |-> addr,
                                 size |-> size]
          ELSE /\ lastHeapOp' = [op |-> "free", ok |-> FALSE, addr |-> addr,
                                 size |-> size]
               /\ UNCHANGED << roFreeList, rwFreeList >>
    /\ UNCHANGED << roOffset, rwOffset, live >>
    /\ UNCHANGED otherThanHeap

\* Heap.create
HeapInit ==
    /\ roOffset = 0
    /\ rwOffset = 0
    /\ roFreeList = << >>
    /\ rwFreeList = << >>
    /\ live = {}
    /\ lastHeapOp = [op |-> "create", ok |-> TRUE, addr |-> base, size |-> totalSize]


(***************************************************************************)
(* The remote memory and romem's registry.  A remote address is an index   *)
(* of mem; a Buffer is a sequence of bytes, indexed from 0 as in the code. *)
(***************************************************************************)
Addrs == 1..MemSize
Bytes == 0..MaxByte
Buffers(n) == UNION {[1..k -> Bytes] : k \in 0..n}

\* buf[i]
at(buf, i) == buf[i + 1]

\* buf.subarray(start, end)
subarray(buf, start, end) == SubSeq(buf, start + 1, end)

\* process.memory.read(addr, len)
read(m, addr, len) == SubSeq(m, addr, addr + len - 1)

\* len bytes of the remote memory from addr on
readAt(m, addr, len) == [i \in 1..len |-> m[addr + i - 1]]

\* the end of a region: remote.address + local.length
regionEnd(romem) == romem.remote + Len(romem.local)

RECURSIVE findRegionFrom(_, _, _, _)
findRegionFrom(regs, destAddr, writeLen, k) ==
    IF k > Len(regs) THEN 0
    ELSE IF destAddr + writeLen > regs[k].remote /\ destAddr < regionEnd(regs[k])
         THEN k
         ELSE findRegionFrom(regs, destAddr, writeLen, k + 1)

\* the index of the first overlapping region of the registry; 0 for undefined
findOverlappingRegion(regs, destAddr, writeLen) ==
    findRegionFrom(regs, destAddr, writeLen, 1)

getOverlapInfo(destAddr, writeLen, romem) ==
    LET writeEnd     == destAddr + writeLen
        rStart       == romem.remote
        rEnd         == regionEnd(romem)
        overlapStart == IF destAddr > rStart THEN destAddr ELSE rStart
        overlapEnd   == IF writeEnd < rEnd THEN writeEnd ELSE rEnd
        overlapLen   == overlapEnd - overlapStart
        romemOffset  == overlapStart - rStart
    IN  [writeOffset |-> overlapStart - destAddr,
         overlapLen  |-> overlapLen,
         snapshot    |-> subarray(romem.local, romemOffset, romemOffset + overlapLen)]

\* updateSnapshot with the copy left out
updateSnapshotNever(romem, source, destAddr) == romem

\* the region after source.copy(romem.local, dstOffset, srcOffset, srcOffset + len)
updateSnapshot(romem, source, destAddr) ==
    LET rStart       == romem.remote
        writeEnd     == destAddr + Len(source)
        rEnd         == regionEnd(romem)
        overlapStart == IF destAddr > rStart THEN destAddr ELSE rStart
        overlapEnd   == IF writeEnd < rEnd THEN writeEnd ELSE rEnd
        srcOffset    == overlapStart - destAddr
        dstOffset    == overlapStart - rStart
        len          == overlapEnd - overlapStart
    IN  IF overlapEnd <= overlapStart THEN romem
        ELSE [romem EXCEPT !.local =
                [x \in 1..Len(romem.local) |->
                    IF x - 1 >= dstOffset /\ x - 1 < dstOffset + len
                    THEN at(source, srcOffset + (x - 1 - dstOffset))
                    ELSE romem.local[x]]]

(***************************************************************************)
(* The writer.  A write in progress is [mem, regions, calls, ret]: the     *)
(* remote memory, the registry, the in-thread memset calls issued so far   *)
(* and the value the function last left returned.  fails is the set of     *)
(* call numbers whose memset comes back with a null address; such a call   *)
(* stores nothing.                                                         *)
(***************************************************************************)
\* proxy.call(crt.memset, addr, value, runLen)
memset(w, addr, value, runLen, fails) ==
    LET ok == (Len(w.calls) + 1) \notin fails
    IN  [w EXCEPT
           !.mem   = IF ok
                     THEN [a \in DOMAIN w.mem |->
                             IF a >= addr /\ a < addr + runLen THEN value ELSE w.mem[a]]
                     ELSE @,
           !.calls = Append(@, [addr |-> addr, value |-> value,
                                runLen |-> runLen, ok |-> ok])]

\* addr.address === 0n, for the call issued last
nullReturned(w) == ~w.calls[Len(w.calls)].ok

\* while (j < length && data[j] === value) j++
RECURSIVE runEnd(_, _, _)
runEnd(data, value, j) ==
    IF j < Len(data) /\ at(data, j) = value THEN runEnd(data, value, j + 1) ELSE j

\* the plain decomposition: one memset per maximal run of equal bytes
RECURSIVE writeRuns(_, _, _, _, _)
writeRuns(w, destAddr, data, i, fails) ==
    IF i >= Len(data) THEN [w EXCEPT !.ret = Len(data)]
    ELSE LET value == at(data, i)
             j     == runEnd(data, value, i + 1)
             w2    == memset(w, destAddr + i, value, j - i, fails)
         IN  IF nullReturned(w2) THEN [w2 EXCEPT !.ret = i]
             ELSE writeRuns(w2, destAddr, data, j, fails)

\* while (i < length && source[i] === last[i]) i++
RECURSIVE skipEqual(_, _, _)
skipEqual(source, last, i) ==
    IF i < Len(source) /\ at(source, i) = at(last, i)
    THEN skipEqual(source, last, i + 1)
    ELSE i

RECURSIVE safeRuns(_, _, _, _, _, _)
safeRuns(w, destAddr, source, last, i0, fails) ==
    LET i == skipEqual(source, last, i0)
    IN  IF i >= Len(source) THEN [w EXCEPT !.ret = Len(source)]
        ELSE LET value == at(source, i)
                 j     == runEnd(source, value, i + 1)
                 w2    == memset(w, destAddr + i, value, j - i, fails)
             IN  IF nullReturned(w2) THEN [w2 EXCEPT !.ret = i]
                 ELSE safeRuns(w2, destAddr, source, last, j, fails)

writeMemorySafeBuffer(w, destAddr, source, last, fails) ==
    IF Len(source) = 0 THEN [w EXCEPT !.ret = 0]
    ELSE safeRuns(w, destAddr, source, last, 0, fails)

RECURSIVE writeMemory(_, _, _, _)
writeMemory(w, destAddr, data, fails) ==
    LET length == Len(data)
        k      == findOverlappingRegion(w.regions, destAddr, length)
    IN  IF length = 0 THEN [w EXCEPT !.ret = 0]
        ELSE IF k # 0 THEN
            LET info        == getOverlapInfo(destAddr, length, w.regions[k])
                writeOffset == info.writeOffset
                overlapLen  == info.overlapLen
                before      == IF writeOffset > 0
                               THEN writeMemory(w, destAddr,
                                                subarray(data, 0, writeOffset), fails)
                               ELSE [w EXCEPT !.ret = 0]
                overlapDest == destAddr + writeOffset
                overlapData == subarray(data, writeOffset, writeOffset + overlapLen)
                safe        == writeMemorySafeBuffer(before, overlapDest, overlapData,
                                                     info.snapshot, fails)
                snapped     == [safe EXCEPT !.regions[k] =
                                   updateSnapshot(@, overlapData, overlapDest)]
                afterOffset == writeOffset + overlapLen
                after       == IF afterOffset < length
                               THEN writeMemory(snapped, destAddr + afterOffset,
                                                subarray(data, afterOffset, length), fails)
                               ELSE [snapped EXCEPT !.ret = 0]
            IN  [after EXCEPT !.ret = before.ret + safe.ret + after.ret]
        ELSE writeRuns(w, destAddr, data, 0, fails)

\* variant: the bytes read at source go through the registry as a Buffer does
writeMemoryWithPointerSafe(w, destAddr, buf, fails) ==
    writeMemory(w, destAddr, buf, fails)

\* no registry lookup: the plain decomposition of the bytes read at source
writeMemoryWithPointer(w, destAddr, buf, fails) ==
    IF Len(buf) = 0 THEN [w EXCEPT !.ret = 0]
    ELSE writeRuns(w, destAddr, buf, 0, fails)

NoWrite == [kind |-> "none", dest |-> 0, data |-> << >>, calls |-> << >>, ret |-> 0,
            reported |-> 0, regionsBefore |-> << >>, repeat |-> FALSE]

Starting == [mem |-> mem, regions |-> regions, calls |-> << >>, ret |-> 0]

Written(kind, dest, data, w, reported) ==
    /\ mem' = w.mem
    /\ regions' = w.regions
    /\ lastWrite' = [kind |-> kind, dest |-> dest, data |-> data, calls |-> w.calls,
                     ret |-> w.ret, reported |-> reported, regionsBefore |-> regions,
                     repeat |-> /\ kind = "buf"
                                /\ lastWrite.kind = "buf"
                                /\ lastWrite.dest = dest
                                /\ lastWrite.data = data]
    /\ allCompleted' = (allCompleted /\ \A c \in 1..Len(w.calls) : w.calls[c].ok)

\* proxy.write(address, buf): threadWrite with a Buffer and no size
ThreadWrite(address, data, fails) ==
    /\ \A i \in 0..(Len(data) - 1) : (address + i) \in DOMAIN mem
    /\ Written("buf", address, data, writeMemory(Starting, address, data, fails),
               Len(data))
    /\ UNCHANGED otherThanWrite

\* proxy.write(address, source, size): threadWrite with a pointer to the
\* bytes buf of this process, size = buf.length > 0
ThreadWritePointer(address, buf, fails) ==
    /\ Len(buf) > 0
    /\ \A i \in 0..(Len(buf) - 1) : (address + i) \in DOMAIN mem
    /\ Written("ptr", address, buf, writeMemoryWithPointer(Starting, address, buf, fails),
               Len(buf))
    /\ UNCHANGED otherThanWrite

\* calloc(1, size) hands out a zeroed block that no registered region holds
createReadOnlyMemory(remote, size) ==
    /\ Len(regions) < MaxRegions
    /\ remote + size - 1 <= MemSize
    /\ findOverlappingRegion(regions, remote, size) = 0
    /\ mem' = [a \in Addrs |-> IF a >= remote /\ a < remote + size THEN 0 ELSE mem[a]]
    /\ regions' = Append(regions, [remote |-> remote, local |-> [x \in 1..size |-> 0]])
    /\ lastWrite' = NoWrite
    /\ UNCHANGED << allCompleted, otherThanWrite >>

\* local is a buffer that mirrors the remote contents exactly
registerReadOnlyMemory(remote, size) ==
    /\ Len(regions) < MaxRegions
    /\ remote + size - 1 <= MemSize
    /\ regions' = Append(regions, [remote |-> remote, local |-> read(mem, remote, size)])
    /\ lastWrite' = NoWrite
    /\ UNCHANGED << mem, allCompleted, otherThanWrite >>

\* regions.splice(idx, 1)
unregisterReadOnlyMemory(idx) ==
    /\ regions' = SubSeq(regions, 1, idx - 1) \o SubSeq(regions, idx + 1, Len(regions))
    /\ lastWrite' = NoWrite
    /\ UNCHANGED << mem, allCompleted, otherThanWrite >>

\* the call numbers that fail in a write of n bytes (it makes at most n calls)
FailSets(n) == {f \in SUBSET (1..n) : Cardinality(f) <= MaxFail}

WriteAt(m) ==
    /\ mem = m
    /\ regions = << >>
    /\ lastWrite = NoWrite
    /\ allCompleted = TRUE

WriteInit == \E m \in [Addrs -> Bytes] : WriteAt(m)

WriteIdle == WriteAt([a \in Addrs |-> 0])

WriteNext ==
    \/ \E a \in Addrs, d \in Buffers(MaxLen) : \E f \in FailSets(Len(d)) :
          ThreadWrite(a, d, f)
    \/ \E a \in Addrs, d \in Buffers(MaxLen) : \E f \in FailSets(Len(d)) :
          ThreadWritePointer(a, d, f)
    \/ \E a \in Addrs, n \in 1..MaxRegionLen : createReadOnlyMemory(a, n)
    \/ \E a \in Addrs, n \in 1..MaxRegionLen : registerReadOnlyMemory(a, n)
    \/ \E idx \in 1..Len(regions) : unregisterReadOnlyMemory(idx)

(***************************************************************************)
(* The Heap and the registry: create registers the readonly zone, writes   *)
(* to readonly allocations go through writeMemory, reset refills the       *)
(* snapshot, destroy unregisters and frees the block.                      *)
(***************************************************************************)
\* the sizes of the blocks of a free list, added up
RECURSIVE freeBytes(_)
freeBytes(freeList) ==
    IF freeList = << >> THEN 0 ELSE Head(freeList).size + freeBytes(Tail(freeList))

\* Heap.roAvailable, Heap.rwAvailable
roAvailable == (roSize - roOffset) + freeBytes(roFreeList)
rwAvailable == (rwSize - rwOffset) + freeBytes(rwFreeList)

\* a Buffer of n zero bytes
zeroes(n) == [x \in 1..n |-> 0]

\* the romem Heap.create registers for the readonly zone
heapRomem == [remote |-> base, local |-> zeroes(roSize)]

\* a region registered by someone else, away from the block
otherRomem == [remote |-> base + totalSize + 1, local |-> zeroes(1)]

\* variant: the snapshot is left as it is
resetKeepsSnapshot(regs) == regs

\* this.romem.local.fill(0), seen through the registry
reset(regs) ==
    IF romemAt = 0 THEN regs
    ELSE [regs EXCEPT ![romemAt].local = zeroes(Len(@))]

\* Heap.reset
Reset ==
    /\ roOffset' = 0
    /\ rwOffset' = 0
    /\ roFreeList' = << >>
    /\ rwFreeList' = << >>
    /\ regions' = reset(regions)
    /\ live' = {}
    /\ lastHeapOp' = [op |-> "reset", ok |-> TRUE, addr |-> base, size |-> totalSize]
    /\ UNCHANGED << threadVars, heapLinkVars, mem, lastWrite, allCompleted, nthVars, strVars, taskVars >>

\* variant: the registry is left as it is
destroyKeepsRegion(regs) == regs

\* unregisterReadOnlyMemory(this.romem), as destroy calls it
destroy(regs) == IF romemAt = 0 THEN regs ELSE RemoveAt(regs, romemAt)

\* Heap.destroy: the call records the registry it was issued under
Destroy ==
    /\ romemAt # 0
    /\ regions' = destroy(regions)
    /\ romemAt' = 0
    /\ heapCalls' = Append(heapCalls, [fn |-> "free", arg |-> base,
                                       registry |-> destroy(regions)])
    /\ lastHeapOp' = [op |-> "destroy", ok |-> TRUE, addr |-> base, size |-> totalSize]
    /\ UNCHANGED << threadVars, nthVars, strVars, taskVars, roOffset, rwOffset, roFreeList, rwFreeList, live,
                    mem, lastWrite, allCompleted >>

\* proxy.write of a whole buffer to a live readonly allocation, every memset
\* succeeding; the observation of writes (lastWrite) is not kept here
WriteReadonly(a, data) ==
    /\ a \in live
    /\ a.ro
    /\ LET w == writeMemory(Starting, a.addr, data, {})
       IN /\ mem' = w.mem
          /\ regions' = w.regions
    /\ UNCHANGED << lastWrite, allCompleted, otherThanWrite >>

\* proxy.write(address, source, size) of the bytes data of this process to a
\* live readonly allocation, every memset succeeding
WritePointerReadonly(a, data) ==
    /\ a \in live
    /\ a.ro
    /\ LET w == writeMemoryWithPointer(Starting, a.addr, data, {})
       IN /\ mem' = w.mem
          /\ regions' = w.regions
    /\ UNCHANGED << lastWrite, allCompleted, otherThanWrite >>

\* Math.min(entry.alloc.size, newSize)
copyLen(oldSize, newSize) == IF oldSize < newSize THEN oldSize ELSE newSize

\* NThreadHeap.reallocInternal of the live readonly allocation a, readonly
\* and fill left out, where the active Heap serves the new block: the block
\* is allocated in the readonly zone, the old bytes are read and written to
\* it through writeMemory (every memset succeeding), the old block is freed
HeapRealloc(a, newSize) ==
    /\ a \in live
    /\ a.ro
    /\ allocReadonly(newSize).ok
    /\ \E r \in {allocReadonly(newSize)} :
       \E oldData \in {readAt(mem, a.addr, copyLen(a.size, newSize))} :
       \E w \in {writeMemory(Starting, r.addr, oldData, {})} :
          /\ mem' = w.mem
          /\ regions' = w.regions
          /\ roOffset' = r.offset
          /\ roFreeList' = insertAndCoalesce(r.freeList, a.addr - base, a.size)
          /\ live' = (live \ {a}) \cup {[addr |-> r.addr, size |-> newSize, ro |-> TRUE]}
          /\ lastHeapOp' = [op |-> "realloc", ok |-> TRUE, addr |-> r.addr,
                            size |-> newSize, old |-> a, oldData |-> oldData]
    /\ UNCHANGED << rwOffset, rwFreeList, lastWrite, allCompleted, threadVars,
                    heapLinkVars, nthVars, strVars, taskVars >>

\* after Heap.create: the block is calloc'ed (its readonly zone is the memory
\* kept here) and the zone registered, alone or after another region
HeapCreated(others) ==
    /\ mem = [a \in base..(base + roSize - 1) |-> 0]
    /\ regions = others \o << heapRomem >>
    /\ romemAt = Len(others) + 1
    /\ heapCalls = << [fn |-> "calloc", arg |-> totalSize, registry |-> others] >>
    /\ lastWrite = NoWrite
    /\ allCompleted = TRUE

\* no Heap has been created
NoHeap == romemAt = 0 /\ heapCalls = << >>

HeapNext ==
    \/ \E size \in Sizes : AllocReadonly(size)
    \/ \E size \in Sizes : Alloc(size)
    \/ \E a \in live : Free(a)
    \/ \E addr \in Foreign, size \in 1..2 : FreeForeign(addr, size)

\* the life of one Heap up to its destroy, with allocations of 1..MaxLifeAlloc
\* bytes, writes to its readonly allocations, and resets
HeapLifeNext ==
    \/ romemAt # 0 /\ \E size \in 1..MaxLifeAlloc : AllocReadonly(size)
    \/ romemAt # 0 /\ \E size \in 1..MaxLifeAlloc : Alloc(size)
    \/ romemAt # 0 /\ \E a \in live : Free(a)
    \/ romemAt # 0 /\ \E a \in live : \E d \in [1..a.size -> Bytes] : WriteReadonly(a, d)
    \/ romemAt # 0 /\ Reset
    \/ Destroy

(***************************************************************************)
(* NThreadHeap: one injection's ProxyState (active heap, previous heaps,   *)
(* allocations map) over Heaps held as records, and the target's CRT heap. *)
(* A Heap is known by its base; the allocations map is a set of entries    *)
(* with distinct addresses.                                                *)
(***************************************************************************)
heapSize == NthHeapSize
maxSize == NthMaxSize

Min(a, b) == IF a < b THEN a ELSE b
Max(a, b) == IF a > b THEN a ELSE b

\* null, for ProxyState.heap and for a missing entry of the state map
Null == [none |-> TRUE]

\* getState: the entry of the proxy, made on first use
getState(s) ==
    IF s = Null THEN [heap |-> Null, prevHeaps |-> << >>, allocations |-> {}] ELSE s

\* NThreadHeap.calcRoSize
calcRoSize(size, ro) == IF ro THEN (size * 3) \div 4 ELSE size \div 4

\* the bytes a CRT block of n bytes takes: malloc(0) returns a block of its
\* own
crtSize(n) == IF n > 0 THEN n ELSE 1

\* the CRT heap hands out the lowest block clear of the live ones: it starts
\* at CrtBase or where a live block ends
crtFree(c, n) ==
    LET starts  == {CrtBase} \cup {b.addr + b.size : b \in c}
        fits(a) == \A b \in c : a + crtSize(n) <= b.addr \/ b.addr + b.size <= a
    IN  CHOOSE a \in starts : fits(a) /\ \A a2 \in starts : fits(a2) => a <= a2

\* malloc(n) / calloc(1, n): the CRT heap with the new block
crtAlloc(c, n) == c \cup {[addr |-> crtFree(c, n), size |-> crtSize(n)]}

\* free(p)
crtRelease(c, p) == {b \in c : b.addr # p}

\* the Heap that Heap.create(proxy, total, ro) returns for a block at b
createdHeap(b, total, ro) ==
    [base |-> b, totalSize |-> total, roSize |-> ro, rwSize |-> total - ro,
     roOffset |-> 0, rwOffset |-> 0, roFreeList |-> << >>, rwFreeList |-> << >>]

\* Heap.allocReadonly / Heap.alloc on the Heap h: what is returned, and h after
allocIn(h, size, ro) ==
    LET freeList == IF ro THEN h.roFreeList ELSE h.rwFreeList
        offset   == IF ro THEN h.roOffset ELSE h.rwOffset
        zoneSize == IF ro THEN h.roSize ELSE h.rwSize
        zoneBase == IF ro THEN h.base ELSE h.base + h.roSize
        freeIdx  == findFreeBlock(freeList, size)
    IN  IF size <= 0 THEN Thrown("invalid size")
        ELSE IF freeIdx # 0
        THEN LET sp == splitFreeBlock(freeList, freeIdx, size)
             IN [ok |-> TRUE, addr |-> zoneBase + sp.offset,
                 heap |-> IF ro THEN [h EXCEPT !.roFreeList = sp.freeList]
                                ELSE [h EXCEPT !.rwFreeList = sp.freeList]]
        ELSE IF offset + size > zoneSize THEN Thrown("exhausted")
        ELSE [ok |-> TRUE, addr |-> zoneBase + offset,
              heap |-> IF ro THEN [h EXCEPT !.roOffset = @ + size]
                             ELSE [h EXCEPT !.rwOffset = @ + size]]

\* NThreadHeap.tryAlloc: a throw becomes null (ok = FALSE)
tryAlloc(h, size, ro) == allocIn(h, size, ro)

\* Heap.free on the Heap h: h after (the address is one h handed out)
freeIn(h, addr, size) ==
    LET roEnd == h.base + h.roSize
    IN  IF addr >= h.base /\ addr < roEnd
        THEN [h EXCEPT !.roFreeList = insertAndCoalesce(@, addr - h.base, size)]
        ELSE IF addr >= roEnd /\ addr < roEnd + h.rwSize
        THEN [h EXCEPT !.rwFreeList = insertAndCoalesce(@, addr - roEnd, size)]
        ELSE h

\* allocations.set(address, entry)
setEntry(allocations, e) == {x \in allocations : x.addr # e.addr} \cup {e}

\* s.heap.totalSize >= this.maxSize
atCeiling(h) == h.totalSize >= maxSize

\* the size of the block that follows one of `total` bytes
grownSize(total) == Min(total * 2, maxSize)

\* the state once the active Heap object has become h: a previous Heap that
\* is the same object shows the change too
withHeap(s, h) ==
    [s EXCEPT !.heap = h,
              !.prevHeaps = [i \in DOMAIN @ |-> IF @[i].base = h.base THEN h ELSE @[i]]]

\* the answer "super must serve it": nothing is changed
cannotServe(s, c, regs) ==
    [state |-> s, crt |-> c, regions |-> regs, ptr |-> 0, threw |-> FALSE,
     called |-> FALSE]

\* the tail of allocFromHeap: the old active Heap, if any, is pushed on
\* prevHeaps, a Heap of `total` bytes is created, becomes the active one, and
\* is asked for the block.  crtNull: calloc returns NULL and Heap.create throws,
\* before s.heap is assigned.
allocFromNewHeap(s, c, regs, total, size, ro, crtNull) ==
    LET b      == crtFree(c, total)
        h      == createdHeap(b, total, calcRoSize(total, ro))
        c2     == crtAlloc(c, total)
        r2     == Append(regs, [remote |-> b, local |-> zeroes(h.roSize)])
        pushed == [s EXCEPT !.prevHeaps = IF s.heap # Null THEN Append(@, s.heap) ELSE @]
        s2     == [pushed EXCEPT !.heap = h]
        res    == tryAlloc(h, size, ro)
    IN  IF crtNull
        THEN [state |-> pushed, crt |-> c, regions |-> regs, ptr |-> 0,
              threw |-> TRUE, called |-> TRUE]
        ELSE IF ~res.ok
        THEN [state |-> s2, crt |-> c2, regions |-> r2, ptr |-> 0, threw |-> FALSE,
              called |-> TRUE]
        ELSE [state |-> [s2 EXCEPT !.heap = res.heap,
                                   !.allocations = setEntry(@,
                                       [addr |-> res.addr, size |-> size,
                                        backing |-> "heap", heap |-> b])],
              crt |-> c2, regions |-> r2, ptr |-> res.addr, threw |-> FALSE,
              called |-> TRUE]

\* NThreadHeap.allocFromHeap: [state, crt, regions, ptr, threw, called], with
\* ptr = 0 for null, threw for an exception, called for a CRT call made
allocFromHeap(s, c, regs, size, ro, crtNull) ==
    IF s.heap # Null
    THEN LET res == tryAlloc(s.heap, size, ro)
         IN IF res.ok
            THEN [state |-> [withHeap(s, res.heap) EXCEPT
                                !.allocations = setEntry(@,
                                    [addr |-> res.addr, size |-> size,
                                     backing |-> "heap", heap |-> s.heap.base])],
                  crt |-> c, regions |-> regs, ptr |-> res.addr, threw |-> FALSE,
                  called |-> FALSE]
            ELSE IF atCeiling(s.heap) THEN cannotServe(s, c, regs)
            ELSE IF size > grownSize(s.heap.totalSize) THEN cannotServe(s, c, regs)
            ELSE allocFromNewHeap(s, c, regs, grownSize(s.heap.totalSize), size, ro,
                                  crtNull)
    ELSE IF size > maxSize THEN cannotServe(s, c, regs)
    ELSE allocFromNewHeap(s, c, regs, Max(Min(heapSize, maxSize), size), size, ro,
                          crtNull)

\* NThread.threadAlloc(proxy, size) with no fill: `return proxy.malloc(size)`,
\* whatever address malloc gave; crtNull: it gave NULL
superAlloc(r, size, crtNull) ==
    IF crtNull
    THEN [r EXCEPT !.ptr = 0, !.called = TRUE]
    ELSE [r EXCEPT !.crt = crtAlloc(r.crt, size), !.ptr = crtFree(r.crt, size),
                   !.called = TRUE]

\* NThreadHeap.threadAlloc(proxy, size, {readonly: ro}): a null from
\* allocFromHeap goes to super.threadAlloc, whose pointer is returned
threadAlloc(s, c, regs, size, ro, crtNull) ==
    LET r == allocFromHeap(getState(s), c, regs, size, ro, crtNull)
    IN  IF r.threw THEN r
        ELSE IF r.ptr = 0 THEN superAlloc(r, size, crtNull)
        ELSE r

\* the Heaps of a ProxyState: s.heap ? [...s.prevHeaps, s.heap] : s.prevHeaps
allHeaps(s) ==
    IF s = Null THEN << >>
    ELSE IF s.heap # Null THEN Append(s.prevHeaps, s.heap) ELSE s.prevHeaps

\* the bases of a sequence of Heaps
bases(hs) == {hs[i].base : i \in DOMAIN hs}

\* the log after an operation that took the state from s to s2
logged(s, s2) ==
    IF bases(allHeaps(s2)) = bases(allHeaps(s)) THEN proxyLog
    ELSE Append(proxyLog, [ev |-> "create", base |-> s2.heap.base, ok |-> TRUE])

\* proxy.alloc(size, {readonly: ro}); crtNull: the CRT of the target has no
\* memory left, and the allocation it is asked for in this call returns NULL
ProxyAlloc(size, ro, crtNull) ==
    /\ nthOp.op # "close"
    /\ nthOp.n < NthMaxOps
    /\ Cardinality(handed) < NthMaxLive
    /\ LET r == threadAlloc(state, crtHeap, regions, size, ro, crtNull)
           n == allocFromHeap(getState(state), crtHeap, regions, size, ro, crtNull)
       IN /\ crtNull => r.called
          /\ state' = r.state
          /\ crtHeap' = r.crt
          /\ regions' = r.regions
          /\ handed' = IF r.threw THEN handed
                       ELSE handed \cup {[addr |-> r.ptr, size |-> size, ro |-> ro]}
          /\ nthOp' = [op |-> "alloc", n |-> nthOp.n + 1, ptr |-> r.ptr,
                       size |-> size, ro |-> ro,
                       fallback |-> (n.ptr = 0 /\ ~n.threw),
                       threw |-> r.threw, crtNull |-> crtNull]
          /\ proxyLog' = logged(state, r.state)
    /\ UNCHANGED otherThanNth

\* proxy.free(ptr), NThreadHeap.threadFree: the entry leaves the map; a block
\* of a Heap goes back to that Heap, anything else to the CRT free
ProxyFree(a) ==
    /\ nthOp.op # "close"
    /\ nthOp.n < NthMaxOps
    /\ state # Null
    /\ LET entries == {e \in state.allocations : e.addr = a.addr}
           rest    == {e \in state.allocations : e.addr # a.addr}
       IN IF entries = {} \/ (\E e \in entries : e.backing = "super")
          THEN /\ state' = [state EXCEPT !.allocations = rest]
               /\ crtHeap' = crtRelease(crtHeap, a.addr)
          ELSE LET e == CHOOSE x \in entries : TRUE
               IN /\ state' = [state EXCEPT
                       !.allocations = rest,
                       !.heap = IF @ # Null /\ @.base = e.heap
                                THEN freeIn(@, e.addr, e.size) ELSE @,
                       !.prevHeaps = [i \in DOMAIN @ |->
                                         IF @[i].base = e.heap
                                         THEN freeIn(@[i], e.addr, e.size)
                                         ELSE @[i]]]
                  /\ crtHeap' = crtHeap
    /\ handed' = handed \ {a}
    /\ nthOp' = [op |-> "free", n |-> nthOp.n + 1, ptr |-> a.addr,
                 crt |-> \A e \in state.allocations :
                            e.addr = a.addr => e.backing = "super"]
    /\ UNCHANGED << regions, proxyLog, otherThanNth >>

\* opts.address left undefined
NoAddress == -1

\* NThread.threadAlloc(proxy, size, {address}) with no fill: realloc when an
\* address is given, which throws on NULL, and malloc otherwise, which does
\* not: [crt, ptr, threw, call]
baseAlloc(c, size, address, crtNull) ==
    IF address # NoAddress
    THEN LET c1 == crtRelease(c, address)
         IN IF crtNull
            THEN [crt |-> c, ptr |-> 0, threw |-> TRUE,
                  call |-> [ev |-> "crt.realloc", base |-> address, ok |-> FALSE]]
            ELSE [crt |-> crtAlloc(c1, size), ptr |-> crtFree(c1, size), threw |-> FALSE,
                  call |-> [ev |-> "crt.realloc", base |-> address, ok |-> TRUE]]
    ELSE IF crtNull
    THEN [crt |-> c, ptr |-> 0, threw |-> FALSE,
          call |-> [ev |-> "crt.malloc", base |-> 0, ok |-> FALSE]]
    ELSE [crt |-> crtAlloc(c, size), ptr |-> crtFree(c, size), threw |-> FALSE,
          call |-> [ev |-> "crt.malloc", base |-> 0, ok |-> TRUE]]

\* variant: the fallback is given the caller's opts as they are
fallbackOptsKept(address) == address

\* {...opts, address: undefined}: the address the fallback is given
fallbackOpts(address) == NoAddress

\* the Heap of the state s that an entry names
heapOf(s, e) ==
    LET hs == allHeaps(s)
    IN hs[CHOOSE i \in DOMAIN hs : hs[i].base = e.heap]

\* entry.heap.free(entry.alloc) and allocations.delete(address), in the state s
released(s, e) ==
    [s EXCEPT !.allocations = {x \in @ : x.addr # e.addr},
              !.heap = IF @ # Null /\ @.base = e.heap
                       THEN freeIn(@, e.addr, e.size) ELSE @,
              !.prevHeaps = [i \in DOMAIN @ |->
                                IF @[i].base = e.heap
                                THEN freeIn(@[i], e.addr, e.size) ELSE @[i]]]

\* the one element of a set of one element: the(S) evaluates it once
the(S) == CHOOSE x \in S : TRUE

\* reallocInternal once the fallback b has answered for the entry e: a thrown
\* realloc ends the call; a NULL is recorded and then written to, which ends
\* the call with an error; otherwise the pointer is recorded as 'super', the
\* old block freed in its Heap and its entry deleted
afterFallback(e, r, b, newSize) ==
    LET s2 == [r.state EXCEPT !.allocations = setEntry(@,
                  [addr |-> b.ptr, size |-> newSize, backing |-> "super", heap |-> 0])]
    IN  IF b.threw
        THEN [state |-> r.state, crt |-> b.crt, regions |-> r.regions,
              ptr |-> 0, threw |-> TRUE, fallback |-> TRUE, calls |-> << b.call >>]
        ELSE IF b.ptr = 0
        THEN [state |-> s2, crt |-> b.crt, regions |-> r.regions,
              ptr |-> 0, threw |-> TRUE, fallback |-> TRUE, calls |-> << b.call >>]
        ELSE [state |-> released(s2, e), crt |-> b.crt, regions |-> r.regions,
              ptr |-> b.ptr, threw |-> FALSE, fallback |-> TRUE, calls |-> << b.call >>]

\* reallocInternal once allocFromHeap has answered r for the entry e
afterHeapAlloc(e, r, address, newSize, crtNull) ==
    IF r.threw
    THEN [state |-> r.state, crt |-> r.crt, regions |-> r.regions,
          ptr |-> 0, threw |-> TRUE, fallback |-> FALSE, calls |-> << >>]
    ELSE IF r.ptr # 0
    THEN [state |-> released(r.state, e), crt |-> r.crt, regions |-> r.regions,
          ptr |-> r.ptr, threw |-> FALSE, fallback |-> FALSE, calls |-> << >>]
    ELSE the({afterFallback(e, r, b, newSize) :
                b \in {baseAlloc(r.crt, newSize, fallbackOpts(address), crtNull)}})

\* reallocInternal for an address that is unknown or 'super': the entry is
\* deleted, super.threadAlloc reallocates, the pointer is recorded as 'super'
superRealloc(s, c, regs, address, newSize, crtNull) ==
    LET s1 == [s EXCEPT !.allocations = {x \in @ : x.addr # address}]
        done(b) ==
            [state |-> IF b.threw THEN s1
                       ELSE [s1 EXCEPT !.allocations = setEntry(@,
                                [addr |-> b.ptr, size |-> newSize,
                                 backing |-> "super", heap |-> 0])],
             crt |-> b.crt, regions |-> regs, ptr |-> b.ptr, threw |-> b.threw,
             fallback |-> FALSE, calls |-> << b.call >>]
    IN  the({done(b) : b \in {baseAlloc(c, newSize, address, crtNull)}})

\* NThreadHeap.reallocInternal(proxy, address, newSize, {readonly}), readonly
\* being "ro", "rw" or "none" when left out:
\* [state, crt, regions, ptr, threw, fallback, calls].  The bytes copied from
\* the old block to the new one are not followed.
reallocInternal(s0, c, regs, address, newSize, readonly, crtNull) ==
    LET s       == getState(s0)
        entries == {e \in s.allocations : e.addr = address}
    IN  IF entries = {} \/ (\E e \in entries : e.backing = "super")
        THEN superRealloc(s, c, regs, address, newSize, crtNull)
        ELSE the({afterHeapAlloc(e, r, address, newSize, crtNull) :
                    e \in entries,
                    r \in {allocFromHeap(s, c, regs, newSize,
                              IF readonly = "none"
                              THEN address < heapOf(s, the(entries)).base
                                               + heapOf(s, the(entries)).roSize
                              ELSE readonly = "ro",
                              crtNull)}})

\* proxy.alloc(newSize, {address: a, readonly})
ProxyRealloc(a, newSize, readonly, crtNull) ==
    /\ nthOp.op # "close"
    /\ nthOp.n < NthMaxOps
    /\ \E r \in {reallocInternal(state, crtHeap, regions, a.addr, newSize, readonly,
                                 crtNull)} :
          /\ crtNull => (r.calls # << >> \/ r.threw)
          /\ state' = r.state
          /\ crtHeap' = r.crt
          /\ regions' = r.regions
          /\ handed' = IF r.threw THEN handed
                       ELSE (handed \ {a}) \cup
                            {[addr |-> r.ptr, size |-> newSize,
                              ro |-> IF readonly = "none" THEN a.ro ELSE readonly = "ro"]}
          /\ nthOp' = [op |-> "realloc", n |-> nthOp.n + 1, old |-> a.addr,
                       ptr |-> r.ptr, size |-> newSize, fallback |-> r.fallback,
                       threw |-> r.threw, crtNull |-> crtNull]
          /\ proxyLog' = logged(state, r.state) \o r.calls
    /\ UNCHANGED otherThanNth

\* heap.destroy(proxy) of the first k Heaps of hs, as the log shows it: the
\* in-thread free of the failAt-th throws
destroys(hs, k, failAt) ==
    [i \in 1..k |-> [ev |-> "destroy", base |-> hs[i].base, ok |-> (i # failAt)]]

\* the calls of proxy.close() so far: each ended in captured.close() or in
\* a destroy that threw
closes == Cardinality({i \in DOMAIN proxyLog :
                          \/ proxyLog[i].ev = "captured.close"
                          \/ proxyLog[i].ev = "destroy" /\ ~proxyLog[i].ok})

\* proxy.close(), NThreadHeap.threadClose: every Heap of the state is destroyed
\* (unregistered, its block freed in the thread), the state deleted, and
\* super.threadClose closes the captured thread.  failAt = 0: no call throws;
\* otherwise the free of the failAt-th Heap throws out of threadClose, after
\* the Heap was unregistered, and nothing that follows the loop is run.
ProxyClose(failAt) ==
    /\ closes < NthMaxClose
    /\ failAt <= Len(allHeaps(state))
    /\ LET hs   == allHeaps(state)
           done == IF failAt = 0 THEN Len(hs) ELSE failAt
           unregistered == {hs[i].base : i \in 1..done}
           freed == {hs[i].base : i \in (1..done) \ {failAt}}
       IN /\ regions' = SelectSeq(regions, LAMBDA r : r.remote \notin unregistered)
          /\ crtHeap' = {b \in crtHeap : b.addr \notin freed}
          /\ proxyLog' = proxyLog \o destroys(hs, done, failAt)
                            \o (IF failAt = 0
                                THEN << [ev |-> "captured.close", base |-> 0, ok |-> TRUE] >>
                                ELSE << >>)
    /\ state' = IF failAt = 0 THEN Null ELSE state
    /\ nthOp' = [op |-> "close", n |-> nthOp.n, threw |-> (failAt # 0)]
    /\ UNCHANGED << handed, otherThanNth >>

\* no proxy has allocated yet
NoProxy ==
    /\ state = Null
    /\ crtHeap = {}
    /\ handed = {}
    /\ nthOp = [op |-> "none", n |-> 0]
    /\ proxyLog = << >>

AllocSizes == {NthChunk, NthMaxSize + 1}

NthNext ==
    \/ \E size \in AllocSizes, ro \in BOOLEAN, crtNull \in BOOLEAN :
          ProxyAlloc(size, ro, crtNull)
    \/ \E a \in handed : ProxyFree(a)
    \/ \E failAt \in 0..Len(allHeaps(state)) : ProxyClose(failAt)

\* the sizes asked for where reallocations are followed: a chunk, a whole
\* initial heap, more than any heap
ReallocSizes == {NthChunk, NthHeapSize, NthMaxSize + 1}

ReallocNext ==
    \/ /\ nthOp.n < ReallocMaxOps
       /\ \E size \in ReallocSizes, ro \in BOOLEAN, crtNull \in BOOLEAN :
             ProxyAlloc(size, ro, crtNull)
    \/ /\ nthOp.n < ReallocMaxOps
       /\ \E a \in handed, size \in ReallocSizes, readonly \in {"none", "ro", "rw"},
             crtNull \in BOOLEAN : ProxyRealloc(a, size, readonly, crtNull)
    \/ /\ nthOp.n < ReallocMaxOps
       /\ \E a \in handed : ProxyFree(a)
    \/ ProxyClose(0)

(***************************************************************************)
(* NThread.allocString.  A string is a sequence of code points; an         *)
(* encoding is named as the caller names it.                               *)
(***************************************************************************)
\* 'A', 'e' with acute accent, the euro sign
Chars == {65, 233, 8364}
Strings == UNION {[1..n -> Chars] : n \in 0..MaxStrLen}

\* the names BufferEncoding has for the encodings of text
Utf16Names == {"utf16le", "utf-16le", "ucs2", "ucs-2"}
Utf8Names == {"utf8", "utf-8"}
Latin1Names == {"latin1", "binary", "ascii"}
Encodings == Utf16Names \cup Utf8Names \cup Latin1Names

\* the bytes Buffer.from gives for one code point of the basic plane
encodeChar(c, encoding) ==
    IF encoding \in Utf16Names THEN << c % 256, c \div 256 >>
    ELSE IF encoding \in Utf8Names
    THEN IF c < 128 THEN << c >>
         ELSE IF c < 2048 THEN << 192 + (c \div 64), 128 + (c % 64) >>
         ELSE << 224 + (c \div 4096), 128 + ((c \div 64) % 64), 128 + (c % 64) >>
    ELSE << c % 256 >>

\* Buffer.from(str, encoding)
RECURSIVE encode(_, _)
encode(str, encoding) ==
    IF str = << >> THEN << >>
    ELSE encodeChar(Head(str), encoding) \o encode(Tail(str), encoding)

\* encoding === 'utf16le' || encoding === 'ucs2' ? 2 : 1
nullBytes(encoding) == IF encoding = "utf16le" \/ encoding = "ucs2" THEN 2 ELSE 1

\* Buffer.alloc(encoded.length + nullBytes) after encoded.copy(buf)
terminated(str, encoding) == encode(str, encoding) \o zeroes(nullBytes(encoding))

\* allocString(proxy, str, encoding) on the base NThread: proxy.alloc is a
\* malloc of buf.length bytes, proxy.write the write of buf there
AllocString(str, encoding) ==
    /\ ~strCall.done
    /\ LET buf == terminated(str, encoding)
           ptr == crtFree(crtHeap, Len(buf))
       IN /\ crtHeap' = crtAlloc(crtHeap, Len(buf))
          /\ Written("buf", ptr, buf, writeMemory(Starting, ptr, buf, {}), Len(buf))
          /\ strCall' = [done |-> TRUE, str |-> str, encoding |-> encoding,
                         ptr |-> ptr, size |-> Len(buf)]
    /\ UNCHANGED otherThanString

\* allocString has not been called
NoString == strCall = [done |-> FALSE]

\* no task has been started
NoTasks == writers = << >> /\ callers = << >>

\* the memory malloc will hand out, every byte of it holding g
StringMemory(g) ==
    /\ mem = [a \in CrtBase..(CrtBase + 3 * MaxStrLen + 2) |-> g]
    /\ regions = << >>
    /\ lastWrite = NoWrite
    /\ allCompleted = TRUE

StringNext == \E str \in Strings, encoding \in Encodings : AllocString(str, encoding)

(***************************************************************************)
(* Initial states and the specifications                                   *)
(***************************************************************************)
\* a thread running its own code with stack pointer rsp; no CapturedThread yet
ThreadAt(rsp) ==
    /\ alive = TRUE
    /\ osSuspend = 0
    /\ hw = [Rip |-> "orig", Rsp |-> rsp, Reg |-> "origReg", Rax |-> 0,
             Rcx |-> 0]
    /\ stackWord = [addr |-> 0, val |-> "wild"]
    /\ suspendCount = 0
    /\ savedContext = NoCtx
    /\ latestContext = NoCtx
    /\ aliased = FALSE
    /\ callRsp = 0
    /\ handleOpen = FALSE
    /\ pc = "new"
    /\ inj = NoCtx
    /\ waitCount = 0
    /\ waitRes = "none"
    /\ orig = NoCtx
    /\ lastResult = "none"
    /\ retVal = 0
    /\ nSuspendOk = 0
    /\ nResumeOk = 0
    /\ ops = 0

ThreadInit == \E rsp \in RspBase..(RspBase + RspSpan) : ThreadAt(rsp)

\* the thread part of the state where it plays no role
ThreadIdle == ThreadAt(RspBase)

ThreadNext ==
    \/ ThreadPush
    \/ ThreadRet
    \/ ThreadReturn
    \/ ThreadExit
    \/ InjectStart
    \/ WaitPoll
    \/ \E res \in OsWaits : WaitFetchFails(res)
    \/ WaitTimeout
    \/ InjectFinish
    \/ \E t \in Targets, a \in 0..1 : ThreadCallStart(t, a)
    \/ ThreadCallFinish
    \/ Release
    \/ Close
    \/ Suspend

Init == ThreadInit /\ HeapInit /\ WriteIdle /\ NoHeap /\ NoProxy /\ NoString /\ NoTasks

ThreadSpec == Init /\ [][ThreadNext]_vars

\* the same, where the event loop runs every continuation that is due: an
\* iteration of wait's loop (the 1 ms timer fires), the return of wait at
\* the timeout, and the rest of inject and threadCall after the wait
WaitLiveSpec ==
    /\ Init
    /\ [][ThreadNext]_vars
    /\ WF_vars(WaitPoll \/ \E res \in OsWaits : WaitFetchFails(res))
    /\ WF_vars(WaitTimeout)
    /\ WF_vars(InjectFinish)
    /\ WF_vars(ThreadCallFinish)

(***************************************************************************)
(* Two tasks, each driving a captured thread of its own, run writeMemory   *)
(* over one read-only region.  A task runs without a break up to the await *)
(* of a memset, which ends in a later turn of the event loop; meanwhile    *)
(* the other task may run.  The memset of a task is executed by its thread *)
(* in the target some time after the task issued it.  The await of         *)
(* writeMemorySafeBuffer's own result ends within the turn, before any     *)
(* timer fires: the loop's exit and updateSnapshot are one step.           *)
(***************************************************************************)
Writers == 1..2

IdleWriter == [pc |-> "idle", dest |-> 0, data |-> << >>, i |-> 0,
               run |-> [addr |-> 0, value |-> 0, runLen |-> 0]]

\* the read-only region the two tasks write to, as createReadOnlyMemory
\* leaves it
raceRomem == [remote |-> 1, local |-> zeroes(RaceLen)]

\* `last`: romem.local.subarray(...), a view of the snapshot as it is now
lastView(w) == getOverlapInfo(w.dest, Len(w.data), regions[1]).snapshot

\* writeMemorySafeBuffer from index i up to its next await: the bytes equal
\* to the snapshot are skipped, then a memset is issued or the loop is left
scanned(w, i0) ==
    LET i == skipEqual(w.data, lastView(w), i0)
    IN  IF i >= Len(w.data)
        THEN [w EXCEPT !.pc = "done", !.i = i]
        ELSE LET value == at(w.data, i)
                 j     == runEnd(w.data, value, i + 1)
             IN [w EXCEPT !.pc = "memset", !.i = j,
                          !.run = [addr |-> w.dest + i, value |-> value,
                                   runLen |-> j - i]]

\* the registry once the task is at w: updateSnapshot after the loop
snapshotAfter(w) ==
    IF w.pc = "done"
    THEN [regions EXCEPT ![1] = updateSnapshot(@, w.data, w.dest)]
    ELSE regions

\* writeMemory(proxy, dest, data) of a range inside the region, up to the
\* await of its first memset, or to its end if it issues none
WriterStart(t, dest, data) ==
    /\ writers[t].pc = "idle"
    /\ dest >= raceRomem.remote
    /\ dest + Len(data) <= regionEnd(raceRomem)
    /\ \E w \in {scanned([writers[t] EXCEPT !.dest = dest, !.data = data], 0)} :
          /\ writers' = [writers EXCEPT ![t] = w]
          /\ regions' = snapshotAfter(w)
    /\ UNCHANGED << threadVars, heapVars, heapLinkVars, mem, lastWrite,
                    allCompleted, nthVars, strVars, callers >>

\* the thread of task t executes crt.memset in the target
MemsetRuns(t) ==
    /\ writers[t].pc = "memset"
    /\ mem' = [a \in DOMAIN mem |->
                 IF /\ a >= writers[t].run.addr
                    /\ a < writers[t].run.addr + writers[t].run.runLen
                 THEN writers[t].run.value ELSE mem[a]]
    /\ writers' = [writers EXCEPT ![t].pc = "returned"]
    /\ UNCHANGED << threadVars, heapVars, heapLinkVars, regions, lastWrite,
                    allCompleted, nthVars, strVars, callers >>

\* the await of proxy.call is over: the loop goes on from i = j, up to the
\* await of the next memset or to the end of writeMemory
WriterContinue(t) ==
    /\ writers[t].pc = "returned"
    /\ \E w \in {scanned(writers[t], writers[t].i)} :
          /\ writers' = [writers EXCEPT ![t] = w]
          /\ regions' = snapshotAfter(w)
    /\ UNCHANGED << threadVars, heapVars, heapLinkVars, mem, lastWrite,
                    allCompleted, nthVars, strVars, callers >>

RaceNext ==
    \/ \E t \in Writers, dest \in Addrs, data \in Buffers(RaceLen) \ {<< >>} :
          WriterStart(t, dest, data)
    \/ \E t \in Writers : MemsetRuns(t)
    \/ \E t \in Writers : WriterContinue(t)

\* the region registered over zeroed memory, and two tasks that have not
\* started
RaceStart ==
    /\ ThreadIdle /\ HeapInit /\ NoHeap /\ NoProxy /\ NoString
    /\ mem = [a \in Addrs |-> 0]
    /\ regions = << raceRomem >>
    /\ lastWrite = NoWrite
    /\ allCompleted = TRUE
    /\ writers = [t \in Writers |-> IdleWriter]
    /\ callers = << >>

RaceSpec == RaceStart /\ [][RaceNext]_vars

(***************************************************************************)
(* Two tasks issue threadCall on one captured thread.  The part of         *)
(* threadCall before `await thread.wait` runs without a break; each        *)
(* iteration of wait's loop runs in a turn of its own (a timer), and what  *)
(* follows the return of wait runs within that turn.  The function called  *)
(* returns its first argument.                                             *)
(***************************************************************************)
Callers == 1..2

IdleCaller == [pc |-> "idle", arg |-> 0, count |-> 0, outcome |-> "none", ret |-> 0]

\* threadCall(thread, fnRet, [arg]) of task t up to `await thread.wait`
CallerStart(t, arg) ==
    /\ pc = "idle"
    /\ alive
    /\ callers[t].pc = "idle"
    /\ LET s == suspend(osSuspend, suspendCount, nSuspendOk)
           c == fetched("ALL")
           r == resume(s.os, s.count, nResumeOk)
       IN /\ aliased' = FALSE
          /\ osSuspend' = r.os
          /\ suspendCount' = r.count
          /\ nSuspendOk' = s.n
          /\ nResumeOk' = r.n
          /\ IF ripMismatch(c)
             THEN /\ latestContext' = c
                  /\ callers' = [callers EXCEPT ![t] =
                        [@ EXCEPT !.pc = "done", !.arg = arg,
                                  !.outcome = "RipMismatch"]]
                  /\ UNCHANGED hw
             ELSE /\ latestContext' = callContext(c, "fnRet", arg)
                  /\ hw' = applied(callContext(c, "fnRet", arg))
                  /\ callers' = [callers EXCEPT ![t] =
                        [@ EXCEPT !.pc = "wait", !.arg = arg, !.count = 0]]
    /\ UNCHANGED << otherThanCallers, alive, stackWord, savedContext, callRsp,
                    handleOpen, pc, inj, waitCount, waitRes, orig, lastResult,
                    retVal, ops >>

\* one iteration of the wait of task t; when the thread is at the sleep
\* address, wait returns OBJECT_0 and threadCall the Rax of the cache
CallerPoll(t) ==
    /\ callers[t].pc = "wait"
    /\ callers[t].count < MaxPoll
    /\ alive
    /\ latestContext' = fetched("ALL")
    /\ aliased' = FALSE
    /\ callers' = [callers EXCEPT ![t] =
          IF landed(fetched("ALL"))
          THEN [@ EXCEPT !.pc = "done", !.outcome = callOutcome("OBJECT_0"),
                         !.ret = fetched("ALL").Rax]
          ELSE [@ EXCEPT !.count = @ + 1]]
    /\ UNCHANGED << otherThanCallers, alive, osSuspend, hw, stackWord, suspendCount,
                    savedContext, callRsp, handleOpen, pc, inj, waitCount,
                    waitRes, orig, lastResult, retVal, nSuspendOk, nResumeOk,
                    ops >>

\* the wait of task t ran out of iterations
CallerTimeout(t) ==
    /\ callers[t].pc = "wait"
    /\ callers[t].count >= MaxPoll
    /\ callers' = [callers EXCEPT ![t] =
          [@ EXCEPT !.pc = "done", !.outcome = callOutcome("TIMEOUT")]]
    /\ UNCHANGED << otherThanCallers, threadVars >>

\* the function called runs to its 'ret' and returns its first argument
CalledReturns == ThreadReturn /\ hw'.Rax = hw.Rcx

CallersNext ==
    \/ InjectStart
    \/ ThreadPush
    \/ ThreadRet
    \/ WaitPoll
    \/ InjectFinish
    \/ CalledReturns
    \/ \E t \in Callers, arg \in 0..MaxRet : CallerStart(t, arg)
    \/ \E t \in Callers : CallerPoll(t)
    \/ \E t \in Callers : CallerTimeout(t)

\* a thread about to be injected, and two tasks that have not started
CallersStart ==
    /\ ThreadIdle /\ HeapInit /\ WriteIdle /\ NoHeap /\ NoProxy /\ NoString
    /\ writers = << >>
    /\ callers = [t \in Callers |-> IdleCaller]

CallersSpec == CallersStart /\ [][CallersNext]_vars

\* the same, with the owner of the captured thread calling the register
\* setters between the operations
SetterSpec == Init /\ [][ThreadNext \/ \E f \in Setters : SetRegister(f)]_vars

\* the captured thread with suspend() and resume() called on their own
BalanceSpec == Init /\ [][ThreadNext \/ Resume \/ SuspendFails]_vars

\* the captured thread where the OS may refuse a suspend
RefusedNext ==
    \/ ThreadNext
    \/ InjectSuspendRefused
    \/ \E t \in Targets, a \in 0..1 : ThreadCallSuspendRefused(t, a)
    \/ ReleaseSuspendRefused

RefusedSpec == Init /\ [][RefusedNext]_vars

\* the same, with the released thread running on between the operations
ReleaseSpec == Init /\ [][ThreadNext \/ ThreadRun]_vars

\* a fresh Heap beside an idle thread, its readonly zone registered
HeapStart == ThreadIdle /\ HeapInit /\ HeapCreated(<< >>) /\ NoProxy /\ NoString /\ NoTasks

HeapSpec == HeapStart /\ [][HeapNext]_vars

\* an empty registry over any remote memory, beside an idle thread and heap
WriteStart == ThreadIdle /\ HeapInit /\ WriteInit /\ NoHeap /\ NoProxy /\ NoString /\ NoTasks

WriteSpec == WriteStart /\ [][WriteNext]_vars

\* a fresh Heap, its readonly zone registered after another region
HeapLifeStart == ThreadIdle /\ HeapInit /\ HeapCreated(<< otherRomem >>) /\ NoProxy /\ NoString /\ NoTasks

HeapLifeSpec == HeapLifeStart /\ [][HeapLifeNext]_vars

\* one Heap with readonly allocations that are written, from a Buffer or from
\* a pointer, freed and reallocated
HeapReallocNext ==
    \/ \E size \in 1..MaxLifeAlloc : AllocReadonly(size)
    \/ \E a \in live : Free(a)
    \/ \E a \in live : \E d \in [1..a.size -> Bytes] : WriteReadonly(a, d)
    \/ \E a \in live : \E d \in [1..a.size -> Bytes] : WritePointerReadonly(a, d)
    \/ \E a \in live, newSize \in 1..MaxLifeAlloc : HeapRealloc(a, newSize)

HeapReallocSpec == HeapLifeStart /\ [][HeapReallocNext]_vars

\* a proxy that has allocated nothing, beside an idle thread and an empty registry
NthStart == ThreadIdle /\ HeapInit /\ WriteIdle /\ NoHeap /\ NoProxy /\ NoString /\ NoTasks

NthSpec == NthStart /\ [][NthNext]_vars

\* allocString on a fresh base NThread, over memory never written or zeroed
StringStart ==
    /\ ThreadIdle /\ HeapInit /\ NoHeap /\ NoProxy /\ NoString /\ NoTasks
    /\ \E g \in {0, 255} : StringMemory(g)

StringSpec == StringStart /\ [][StringNext]_vars

\* the proxy of NthStart, reallocations included
ReallocSpec == NthStart /\ [][ReallocNext]_vars

\* the pointer the last operation gave up: the one freed, or the old
\* address of a reallocation (0: none)
givenUp ==
    IF nthOp.op = "free" THEN nthOp.ptr
    ELSE IF nthOp.op = "realloc" /\ ~nthOp.threw THEN nthOp.old
    ELSE 0

\* proxy.free(ptr) once more on the pointer just given up
ProxyFreeAgain ==
    /\ givenUp # 0
    /\ \A a \in handed : a.addr # givenUp
    /\ ProxyFree([addr |-> givenUp, size |-> 0, ro |-> FALSE])

StaleNext ==
    \/ ReallocNext
    \/ nthOp.n < ReallocMaxOps /\ ProxyFreeAgain

\* proxy.alloc, proxy.free and realloc where a pointer may be freed again
StaleSpec == NthStart /\ [][StaleNext]_vars

\* the sizes asked for where invalid sizes are followed: none, and a chunk
InvalidSizes == {0, NthChunk}

SizeNext ==
    \/ \E size \in InvalidSizes, ro \in BOOLEAN : ProxyAlloc(size, ro, FALSE)
    \/ \E a \in handed : ProxyFree(a)

\* proxy.alloc on an NThreadHeap, asked for no bytes as well
SizeSpec == NthStart /\ [][SizeNext]_vars

(***************************************************************************)
(* Properties of the hijack state machine                                  *)
(***************************************************************************)

\* C1 (park invariant): once inject has returned successfully, and once a
\* threadCall has returned successfully, the hardware Rip of the captured
\* thread is sleep_address.
ParkInvariant ==
    lastResult \in {"injected", "ok"} => hw.Rip = sleepAddress

\* a second threadCall returned successfully and the thread is parked
ParkWitness ==
    lastResult = "ok" /\ ops >= 2 /\ retVal = 1 /\ hw.Rip = sleepAddress

\* C2 (restoration invariant): after release() on a living thread, following
\* inject and any threadCalls, the hardware Rip, Rsp and pivot register are
\* those the thread had when inject first suspended it.
RestorationInvariant ==
    (lastResult \in {"released", "releasedAgain"} /\ alive) =>
        /\ hw.Rip = orig.Rip
        /\ hw.Rsp = orig.Rsp
        /\ hw.Reg = orig.Reg

\* release() ran after a threadCall that had returned 1
RestorationWitness ==
    /\ lastResult = "released"
    /\ alive
    /\ retVal = 1
    /\ hw.Rip = "orig"
    /\ hw.Rsp = orig.Rsp

\* C3 (suspend balance): after close(), whatever inject, the threadCalls and
\* the releases before it came to, as many OS resumes as OS suspends have
\* succeeded through the captured thread, and a living thread is running.
SuspendBalance ==
    pc = "closed" =>
        /\ nResumeOk = nSuspendOk
        /\ alive => osSuspend = 0

\* close() found two suspends outstanding and drained them
SuspendBalanceWitness ==
    /\ pc = "closed"
    /\ alive
    /\ ops = 0
    /\ nSuspendOk = 4
    /\ nResumeOk = 4

\* C9 (stack safety): stack_begin is a multiple of 16 at least 8192 below the
\* original Rsp, call_rsp is stack_begin - 8, hence 8 mod 16, and call_rsp
\* never changes once inject has set it.
StackSafety ==
    /\ [](pc # "new" =>
            /\ inj.stackBegin % 16 = 0
            /\ inj.stackBegin <= orig.Rsp - 8192
            /\ callRsp = inj.stackBegin - 8
            /\ callRsp % 16 = 8)
    /\ [][pc # "new" => callRsp' = callRsp]_vars

\* a call was dispatched on the scratch stack of a thread whose Rsp was odd
StackSafetyWitness ==
    /\ pc = "callWait"
    /\ orig.Rsp % 16 = 9
    /\ hw.Rsp = callRsp
    /\ callRsp % 16 = 8

\* C10 (threadCall outcome mapping): once a call was dispatched, Object0 makes
\* threadCall return the Rax of the post-call context, Failed makes it fail
\* with ThreadDied, anything else with CallTimeout, and nothing else happens.
DispatchedCallDone ==
    pc = "idle" /\ waitRes # "none" /\ lastResult # "injected"

CallOutcomeMapping ==
    DispatchedCallDone =>
        /\ lastResult \in {"ok", "ThreadDied", "CallTimeout"}
        /\ waitRes = "OBJECT_0" => (lastResult = "ok" /\ retVal = hw.Rax)
        /\ waitRes = "FAILED" => lastResult = "ThreadDied"
        /\ waitRes \notin {"OBJECT_0", "FAILED"} => lastResult = "CallTimeout"

\* ExitThread was called: the wait failed and the call reported ThreadDied
CallOutcomeWitness ==
    /\ DispatchedCallDone
    /\ waitRes = "FAILED"
    /\ lastResult = "ThreadDied"
    /\ hw.Rip = "fnExit"

\* a step of threadCall on a living thread
CallStep == ops' = ops + 1 /\ lastResult' \in {"RipMismatch", "calling"}

\* C11 (pre-call verification): a threadCall that finds the thread off the
\* sleep address fails with RipMismatch, having resumed the thread, written
\* nothing to its registers and left suspendCount (and the OS suspend count)
\* as before; only a parked thread is redirected.
RipMismatchAborts ==
    [][CallStep =>
          IF hw.Rip # sleepAddress
          THEN /\ lastResult' = "RipMismatch"
               /\ hw' = hw
               /\ suspendCount' = suspendCount
               /\ osSuspend' = osSuspend
               /\ nSuspendOk' = nSuspendOk + 1
               /\ nResumeOk' = nResumeOk + 1
               /\ pc' = "idle"
          ELSE lastResult' = "calling"]_vars

\* a call refused on a released, running thread
RipMismatchWitness ==
    /\ lastResult = "RipMismatch"
    /\ alive
    /\ hw.Rip = "orig"
    /\ osSuspend = 0
    /\ suspendCount = 0
    /\ nSuspendOk = nResumeOk

(***************************************************************************)
(* Properties of the heap                                                  *)
(***************************************************************************)

\* C7 (heap zone containment): every allocation allocReadonly returned lies
\* in [base, base + roSize), and every allocation alloc returned lies in
\* [base + roSize, base + totalSize).
ZoneContainment ==
    \A a \in live :
        IF a.ro
        THEN base <= a.addr /\ a.addr + a.size <= base + roSize
        ELSE base + roSize <= a.addr /\ a.addr + a.size <= base + totalSize

\* a readonly allocation ends exactly at the zone boundary, beside a
\* readwrite one, after a free put a block on the readonly free list
ZoneContainmentWitness ==
    /\ lastHeapOp.op = "allocReadonly"
    /\ lastHeapOp.ok
    /\ lastHeapOp.addr + lastHeapOp.size = base + roSize
    /\ roFreeList # << >>
    /\ \E b \in live : ~b.ro /\ b.addr = base + roSize

\* sorted by strictly increasing offset, and no block ends where another starts
Coalesced(freeList) ==
    \A i, j \in DOMAIN freeList :
        /\ i < j => freeList[i].offset < freeList[j].offset
        /\ freeList[i].offset + freeList[i].size # freeList[j].offset

\* freeing the adjacent blocks lo and hi (in this order, from free list fl)
\* leaves one block holding both, and first-fit then serves their combined
\* size at or below lo; exactly at lo when nothing else was free
ReusedAfter(fl, lo, los, hi, his, first, firsts, second, seconds) ==
    LET f == insertAndCoalesce(insertAndCoalesce(fl, first, firsts), second, seconds)
        k == findFreeBlock(f, los + his)
    IN /\ \E e \in DOMAIN f :
            f[e].offset <= lo /\ f[e].offset + f[e].size >= hi + his
       /\ k # 0
       /\ f[k].offset <= lo
       /\ fl = << >> => f[k].offset = lo

\* C8 (free-list coalescing): each zone's free list is sorted by strictly
\* increasing offset and holds no two blocks with o1 + s1 = o2; freeing two
\* adjacent live blocks, in either order, lets an allocation of their
\* combined size reuse the lower block's place.
FreeListCoalescing ==
    /\ Coalesced(roFreeList)
    /\ Coalesced(rwFreeList)
    /\ \A a, b \in live :
          (a.ro = b.ro /\ a.addr + a.size = b.addr) =>
              LET fl == IF a.ro THEN roFreeList ELSE rwFreeList
                  z == IF a.ro THEN base ELSE base + roSize
                  lo == a.addr - z
                  hi == b.addr - z
              IN /\ ReusedAfter(fl, lo, a.size, hi, b.size, lo, a.size, hi, b.size)
                 /\ ReusedAfter(fl, lo, a.size, hi, b.size, hi, b.size, lo, a.size)

\* the middle one of three freed blocks went last and merged with both sides
FreeListCoalescingWitness ==
    /\ lastHeapOp.op = "free"
    /\ lastHeapOp.addr = base + 1
    /\ lastHeapOp.size = 1
    /\ roFreeList = << [offset |-> 0, size |-> 3] >>
    /\ \E a, b \in live : a.addr + a.size = b.addr

\* the blocks of a free list that can hold n bytes
Fitting(freeList, n) == {b \in {freeList[i] : i \in 1..Len(freeList)} : b.size >= n}

\* the fitting block of lowest offset
LowestFit(freeList, n) ==
    CHOOSE b \in Fitting(freeList, n) : \A c \in Fitting(freeList, n) : b.offset <= c.offset

\* the blocks of a free list, as a set
Blocks(freeList) == {freeList[i] : i \in 1..Len(freeList)}

\* one zone across an allocation of n bytes that answered res: free list fl
\* and bump offset bump before, fl2 and bump2 after
FirstFitThenBump(zoneBase, zoneSize, fl, bump, fl2, bump2, res, n) ==
    IF Fitting(fl, n) # {}
    THEN LET b == LowestFit(fl, n)
         IN /\ res.ok
            /\ res.addr = zoneBase + b.offset
            /\ bump2 = bump
            /\ Blocks(fl2) = (Blocks(fl) \ {b}) \cup
                   (IF b.size > n
                    THEN {[offset |-> b.offset + n, size |-> b.size - n]}
                    ELSE {})
            /\ Len(fl2) = IF b.size > n THEN Len(fl) ELSE Len(fl) - 1
    ELSE IF bump + n <= zoneSize
    THEN /\ res.ok
         /\ res.addr = zoneBase + bump
         /\ bump2 = bump + n
         /\ fl2 = fl
    ELSE /\ ~res.ok
         /\ bump2 = bump
         /\ fl2 = fl

\* C14 (first-fit then bump): an allocation of n > 0 bytes in a zone takes the
\* lowest free block of at least n bytes (shrunk from the front, or removed
\* when it has exactly n); failing that the bump area; failing that it fails
\* and changes nothing.  The other zone is left alone.
FirstFitBump ==
    [][ /\ (lastHeapOp'.op = "alloc" /\ lastHeapOp'.size > 0)
            => /\ FirstFitThenBump(base + roSize, rwSize, rwFreeList, rwOffset,
                                   rwFreeList', rwOffset', lastHeapOp', lastHeapOp'.size)
               /\ UNCHANGED << roFreeList, roOffset >>
        /\ (lastHeapOp'.op = "allocReadonly" /\ lastHeapOp'.size > 0)
            => /\ FirstFitThenBump(base, roSize, roFreeList, roOffset,
                                   roFreeList', roOffset', lastHeapOp', lastHeapOp'.size)
               /\ UNCHANGED << rwFreeList, rwOffset >>
      ]_vars

\* an allocation served from the front of a larger free block, which keeps
\* its remainder, with the bump area untouched
FirstFitBumpWitness ==
    /\ lastHeapOp.op = "alloc"
    /\ lastHeapOp.ok
    /\ lastHeapOp.size = 1
    /\ Len(rwFreeList) = 1
    /\ rwFreeList[1].offset = (lastHeapOp.addr - (base + roSize)) + 1
    /\ rwFreeList[1].offset + rwFreeList[1].size <= rwOffset

\* the free list holds a block covering [offset, offset + size)
Covers(freeList, offset, size) ==
    \E b \in Blocks(freeList) : b.offset <= offset /\ offset + size <= b.offset + b.size

\* C15 (foreign free is rejected): Heap.free of an address outside
\* [base, base + totalSize) fails and leaves both free lists and both bump
\* offsets as they were; an address inside goes to the readonly free list
\* when it is below base + roSize and to the readwrite free list otherwise.
ForeignFreeRejected ==
    [][lastHeapOp'.op = "free" =>
          LET addr == lastHeapOp'.addr
              size == lastHeapOp'.size
          IN IF addr < base \/ addr >= base + totalSize
             THEN /\ ~lastHeapOp'.ok
                  /\ UNCHANGED << roFreeList, rwFreeList, roOffset, rwOffset >>
             ELSE /\ lastHeapOp'.ok
                  /\ UNCHANGED << roOffset, rwOffset >>
                  /\ IF addr < base + roSize
                     THEN /\ Covers(roFreeList', addr - base, size)
                          /\ UNCHANGED rwFreeList
                     ELSE /\ Covers(rwFreeList', addr - (base + roSize), size)
                          /\ UNCHANGED roFreeList
      ]_vars

\* a free of the first address past the block, refused while the heap has
\* live allocations and free blocks in both zones
ForeignFreeWitness ==
    /\ lastHeapOp.op = "free"
    /\ ~lastHeapOp.ok
    /\ lastHeapOp.addr = base + totalSize
    /\ roFreeList # << >>
    /\ rwFreeList # << >>
    /\ live # {}

\* C16 (reset): Heap.reset, from whatever state, sets both bump offsets to 0
\* and empties both free lists (so each zone is wholly available), zero-fills
\* the snapshot of the readonly zone, keeps the zone registered where it was
\* and every other region as it was, and issues no in-thread call: the
\* remote memory is not touched.
ResetClears ==
    [][lastHeapOp'.op = "reset" =>
          /\ roOffset' = 0 /\ rwOffset' = 0
          /\ roFreeList' = << >> /\ rwFreeList' = << >>
          /\ roAvailable' = roSize /\ rwAvailable' = rwSize
          /\ romemAt' = romemAt
          /\ Len(regions') = Len(regions)
          /\ regions'[romemAt] = heapRomem
          /\ \A k \in 1..Len(regions) : k # romemAt => regions'[k] = regions[k]
          /\ heapCalls' = heapCalls
          /\ mem' = mem
      ]_vars

\* a reset Heap whose remote readonly zone still holds a byte written before
ResetClearsWitness ==
    /\ lastHeapOp.op = "reset"
    /\ romemAt # 0
    /\ regions[romemAt] = heapRomem
    /\ \E a \in DOMAIN mem : mem[a] # 0
    /\ roOffset = 0 /\ rwOffset = 0

\* C17 (destroy): Heap.destroy takes the Heap's region out of the registry
\* and then issues one in-thread free(base), its only call; afterwards no
\* address of the readonly zone finds that region, and the regions that were
\* registered beside it are all still registered.
DestroyUnregistersThenFrees ==
    lastHeapOp.op = "destroy" =>
        /\ Len(heapCalls) = 2
        /\ heapCalls[2].fn = "free"
        /\ heapCalls[2].arg = base
        /\ \A k \in 1..Len(heapCalls[2].registry) : heapCalls[2].registry[k].remote # base
        /\ romemAt = 0
        /\ \A a \in base..(base + roSize - 1) : findOverlappingRegion(regions, a, 1) = 0
        /\ regions = heapCalls[1].registry

\* a used Heap destroyed, the other region left in the registry
DestroyWitness ==
    /\ lastHeapOp.op = "destroy"
    /\ regions = << otherRomem >>
    /\ heapCalls[Len(heapCalls)].fn = "free"
    /\ live # {}
    /\ \E a \in DOMAIN mem : mem[a] # 0

(***************************************************************************)
(* Properties of the writer and the read-only registry                     *)
(***************************************************************************)
\* the addresses the last write was asked to fill
WrittenRange == lastWrite.dest .. (lastWrite.dest + Len(lastWrite.data) - 1)

\* the addresses a region mirrors
RegionRange(romem) == romem.remote .. (regionEnd(romem) - 1)

\* the region's snapshot byte for address a
SnapshotAt(romem, a) == at(romem.local, a - romem.remote)

\* C4 (RO snapshot consistency): after a proxy write, buffer-source or
\* pointer-source, in a history where every memset succeeded, each registered
\* region's snapshot equals the remote bytes on the part of the region the
\* write overlapped.
SnapshotConsistency ==
    (lastWrite.kind \in {"buf", "ptr"} /\ allCompleted)
        => \A k \in 1..Len(regions) :
              \A a \in WrittenRange \cap RegionRange(regions[k]) :
                  mem[a] = SnapshotAt(regions[k], a)

\* C5 (write-then-read round trip): after proxy.write(dest, buf), in a
\* history where every memset succeeded, the remote bytes of the written
\* range are buf, wherever the range lies relative to the regions and whatever
\* the earlier writes were.
WriteReadRoundTrip ==
    (lastWrite.kind = "buf" /\ allCompleted)
        => read(mem, lastWrite.dest, Len(lastWrite.data)) = lastWrite.data

\* the range [dest, dest + len) lies inside a region of regs
InsideRegion(regs, dest, len) ==
    \E k \in 1..Len(regs) : regs[k].remote <= dest /\ dest + len <= regionEnd(regs[k])

\* data, placed at dest, equals the snapshot of every region of regs it meets
MatchesSnapshot(regs, dest, data) ==
    \A k \in 1..Len(regs) :
        \A i \in 0..(Len(data) - 1) :
            (dest + i) \in RegionRange(regs[k])
                => at(data, i) = SnapshotAt(regs[k], dest + i)

\* C6 (idempotent RO write): a buffer write to a range inside a registered
\* region issues no memset and returns the full length when it repeats the
\* buffer write just before it (same range, same bytes, nothing in between),
\* and also when its bytes all equal the snapshot it found.
IdempotentReadOnlyWrite ==
    ( /\ lastWrite.kind = "buf"
      /\ InsideRegion(lastWrite.regionsBefore, lastWrite.dest, Len(lastWrite.data))
      /\ \/ lastWrite.repeat
         \/ MatchesSnapshot(lastWrite.regionsBefore, lastWrite.dest, lastWrite.data) )
        => /\ lastWrite.calls = << >>
           /\ lastWrite.ret = Len(lastWrite.data)

\* a two-byte buffer with a non-zero byte, written twice in a row inside a
\* region: the second write made no call and the remote holds the buffer
IdempotentReadOnlyWriteWitness ==
    /\ lastWrite.kind = "buf"
    /\ lastWrite.repeat
    /\ Len(lastWrite.data) = 2
    /\ \E i \in 0..1 : at(lastWrite.data, i) # 0
    /\ InsideRegion(lastWrite.regionsBefore, lastWrite.dest, 2)
    /\ lastWrite.calls = << >>
    /\ lastWrite.ret = 2
    /\ read(mem, lastWrite.dest, 2) = lastWrite.data

\* C12 (abort on null memset): in a buffer write, a memset that returned null
\* is the last call of the write, and the write returns the number of bytes
\* that precede the failing run.
AbortOnNullMemset ==
    lastWrite.kind = "buf"
        => \A c \in 1..Len(lastWrite.calls) :
              ~lastWrite.calls[c].ok
                  => /\ c = Len(lastWrite.calls)
                     /\ lastWrite.ret = lastWrite.calls[c].addr - lastWrite.dest

\* some memset of the last write returned null
StoppedEarly == \E c \in 1..Len(lastWrite.calls) : ~lastWrite.calls[c].ok

\* C13 (partial write is surfaced): a proxy.write in which a memset returned
\* null does not report the full requested size to its caller.
PartialWriteSurfaced ==
    (lastWrite.kind \in {"buf", "ptr"} /\ StoppedEarly)
        => lastWrite.reported < Len(lastWrite.data)

(***************************************************************************)
(* Properties of NThreadHeap                                               *)
(***************************************************************************)
\* the total sizes of the Heaps of the proxy, oldest first, the active one last
heapSizes == [i \in DOMAIN allHeaps(state) |-> allHeaps(state)[i].totalSize]

\* every allocation so far was a readwrite one of NthChunk bytes, none freed
ChunkRun ==
    /\ state # Null
    /\ nthOp.op = "alloc"
    /\ nthOp.n = Cardinality(handed)
    /\ \A a \in handed : a.size = NthChunk /\ ~a.ro

\* the Heaps of the proxy: none above maxSize, each the double of the one
\* before it capped at maxSize and larger than it, every heap-backed entry of
\* the map in one of them, and the first of heapSize bytes in a ChunkRun
GrowthChain ==
    /\ \A i \in DOMAIN heapSizes : heapSizes[i] <= maxSize
    /\ \A i \in DOMAIN heapSizes :
          i < Len(heapSizes) =>
              /\ heapSizes[i + 1] = Min(2 * heapSizes[i], maxSize)
              /\ heapSizes[i] < heapSizes[i + 1]
    /\ state # Null =>
          \A e \in state.allocations :
              e.backing = "heap" => e.heap \in bases(allHeaps(state))
    /\ (ChunkRun /\ NthChunk <= heapSize /\ heapSize <= maxSize) =>
          heapSizes[1] = heapSize

\* a proxy.alloc that the active Heap cannot serve while below maxSize: when
\* the doubled size can hold the request a Heap of that size becomes the
\* active one, and whenever the active Heap changes the old one is appended
\* to prevHeaps as it was
GrowthStep ==
    (/\ nthOp'.op = "alloc"
     /\ nthOp'.n = nthOp.n + 1
     /\ state # Null
     /\ state.heap # Null)
    => /\ (/\ ~tryAlloc(state.heap, nthOp'.size, nthOp'.ro).ok
           /\ state.heap.totalSize < maxSize
           /\ nthOp'.size <= Min(2 * state.heap.totalSize, maxSize))
          => /\ state'.heap.base # state.heap.base
             /\ state'.heap.totalSize = Min(2 * state.heap.totalSize, maxSize)
       /\ state'.heap.base # state.heap.base
          => /\ state'.prevHeaps = Append(state.prevHeaps, state.heap)
             /\ ~tryAlloc(state.heap, nthOp'.size, nthOp'.ro).ok
             /\ state.heap.totalSize < maxSize
       /\ state'.heap.base = state.heap.base
          => state'.prevHeaps = state.prevHeaps

\* a proxy.free of a heap-backed entry: the Heap it names, active or previous,
\* holds the block in a free list afterwards
RetainedFreeStep ==
    (/\ nthOp'.op = "free"
     /\ nthOp'.n = nthOp.n + 1)
    => \A e \in state.allocations :
          (e.addr = nthOp'.ptr /\ e.backing = "heap") =>
              \E i \in DOMAIN allHeaps(state') :
                  LET h == allHeaps(state')[i]
                  IN /\ h.base = e.heap
                     /\ \/ \E k \in DOMAIN h.rwFreeList :
                              /\ h.base + h.roSize + h.rwFreeList[k].offset <= e.addr
                              /\ e.addr + e.size <= h.base + h.roSize
                                     + h.rwFreeList[k].offset + h.rwFreeList[k].size
                        \/ \E k \in DOMAIN h.roFreeList :
                              /\ h.base + h.roFreeList[k].offset <= e.addr
                              /\ e.addr + e.size <= h.base
                                     + h.roFreeList[k].offset + h.roFreeList[k].size

\* C18 (NThreadHeap growth): when the active heap cannot serve a request and
\* its totalSize is below maxSize, the next heap has totalSize
\* min(2 * active.totalSize, maxSize) and the old active heap is appended to
\* the previous heaps, where its allocations can still be freed; no heap is
\* ever larger than maxSize and sizes strictly increase from each heap to its
\* successor; repeated readwrite allocations of 3/4 of heapSize, with maxSize
\* four times heapSize, create heaps of heapSize, 2 * heapSize and maxSize.
NThreadHeapGrowth == [](GrowthChain) /\ [][GrowthStep /\ RetainedFreeStep]_vars

\* C19 (CRT fallback is recorded): when no heap can serve an allocation the
\* request is served by the base threadAlloc, a CRT malloc, and the address
\* returned is in the allocations map of the proxy as a CRT-backed entry.
CrtFallbackRecorded ==
    (nthOp.op = "alloc" /\ nthOp.fallback /\ ~nthOp.crtNull) =>
        /\ \E b \in crtHeap : b.addr = nthOp.ptr /\ b.size = nthOp.size
        /\ \E e \in state.allocations : e.addr = nthOp.ptr /\ e.backing = "super"

\* C20 (close frees everything): after a proxy.close() that returned every allocation that
\* proxy.alloc returned and proxy.free has not taken back is released in the
\* target: no block of the CRT heap covers it any more, be it the block of
\* its heap or the block malloc gave for it.
CloseFreesEverything ==
    (nthOp.op = "close" /\ ~nthOp.threw) =>
        \A a \in handed :
            ~\E b \in crtHeap : b.addr <= a.addr /\ a.addr < b.addr + b.size

\* where the log shows a destroy of the Heap at b, and where a close of the
\* captured thread
destroyedAt(b) ==
    {i \in DOMAIN proxyLog : proxyLog[i].ev = "destroy" /\ proxyLog[i].base = b}
closedAt == {i \in DOMAIN proxyLog : proxyLog[i].ev = "captured.close"}
created == {proxyLog[i].base : i \in {j \in DOMAIN proxyLog : proxyLog[j].ev = "create"}}

\* C21 (close ordering): proxy.close() destroys every heap the proxy created,
\* previous and active, exactly once, all of it before the captured thread is
\* released and its handle closed; a second proxy.close() destroys no heap
\* again; the captured thread is closed even when a heap destroy fails.
CloseOrdering ==
    /\ \A b \in created : Cardinality(destroyedAt(b)) <= 1
    /\ nthOp.op = "close" =>
          /\ \A b \in created : Cardinality(destroyedAt(b)) = 1
          /\ closedAt # {}
          /\ \A b \in created : \A i \in destroyedAt(b) : \A j \in closedAt : i < j

(***************************************************************************)
(* Properties of allocString                                               *)
(***************************************************************************)
\* C22 (allocString round trip): for every string s and every encoding,
\* allocString allocates len(encode(s)) + t bytes, t = 2 for UTF-16LE / UCS-2
\* under any of their names and 1 otherwise, and reading that many bytes at
\* the pointer returned gives encode(s) followed by t zero bytes.
AllocStringRoundTrip ==
    strCall.done =>
        LET e == encode(strCall.str, strCall.encoding)
            t == IF strCall.encoding \in Utf16Names THEN 2 ELSE 1
        IN /\ strCall.size = Len(e) + t
           /\ readAt(mem, strCall.ptr, Len(e) + t) = e \o zeroes(t)

(***************************************************************************)
(* Properties of NThreadHeap reallocation and allocation failure           *)
(***************************************************************************)
\* the address lies in the block of a Heap of the state s
InHeap(s, addr) ==
    /\ s # Null
    /\ \E i \in DOMAIN allHeaps(s) :
          /\ allHeaps(s)[i].base <= addr
          /\ addr < allHeaps(s)[i].base + allHeaps(s)[i].totalSize

\* the CRT calls the step added to the log
newCalls == SubSeq(proxyLog', Len(proxyLog) + 1, Len(proxyLog'))

AllocFailureIsError ==
    /\ (nthOp.op \in {"alloc", "realloc"} /\ nthOp.crtNull) => nthOp.threw
    /\ \A a \in handed : a.addr # 0

\* C30 (a freshly created heap serves the request that caused it): whenever
\* allocFromHeap creates a heap, the first one or a grown one, the triggering
\* request of a size up to that heap's totalSize is allocated from that heap;
\* a heap is never created and left unused while the request goes to the CRT
\* fallback.
FreshHeapServes ==
    [][(/\ nthOp'.op \in {"alloc", "realloc"}
        /\ nthOp'.n = nthOp.n + 1
        /\ bases(allHeaps(state')) # bases(allHeaps(state))
        /\ nthOp'.size <= state'.heap.totalSize)
       => /\ ~nthOp'.fallback
          /\ state'.heap.base <= nthOp'.ptr
          /\ nthOp'.ptr + nthOp'.size <= state'.heap.base + state'.heap.totalSize]_vars

(***************************************************************************)
(* Properties of release and wait                                          *)
(***************************************************************************)
\* C25 (release() is idempotent on a living thread): release() performed
\* twice in a row leaves the hardware Rip, Rsp and pivot register, the saved
\* context and suspendCount as performing it once does, and neither call
\* closes the handle.
ReleaseIdempotent ==
    [][(/\ lastResult \in {"released", "releasedAgain"}
        /\ lastResult' = "releasedAgain"
        /\ ops' = ops + 1)
       => /\ hw'.Rip = savedContext.Rip
          /\ hw'.Rsp = savedContext.Rsp
          /\ hw'.Reg = savedContext.Reg
          /\ hw'.Rip = orig.Rip /\ hw'.Rsp = orig.Rsp /\ hw'.Reg = orig.Reg
          /\ savedContext' = savedContext
          /\ suspendCount' = suspendCount
          /\ handleOpen /\ handleOpen']_vars

\* release() has been performed twice in a row on a living thread
ReleaseTwiceWitness ==
    /\ lastResult = "releasedAgain"
    /\ alive
    /\ handleOpen
    /\ hw.Rip = orig.Rip
    /\ suspendCount = 0

InCall == pc \in {"injectWait", "injectRet", "callWait", "callRet"}

\* every wait returns, and so does every inject and every threadCall
WaitReturns == (Waiting ~> ~Waiting) /\ (InCall ~> ~InCall)

\* C27 (wait terminates): a wait with a finite timeout returns after at most
\* that many polling iterations, and it returns TIMEOUT exactly when no
\* iteration saw Rip at the sleep address and no fetch failed, that is when
\* the loop ran through all its iterations; so every inject and every
\* threadCall eventually returns or fails.
WaitTerminates ==
    /\ [](waitCount <= MaxPoll)
    /\ [][(Waiting /\ pc' = Returned) =>
             (waitRes' = "TIMEOUT" <=> waitCount >= MaxPoll)]_vars
    /\ WaitReturns

(***************************************************************************)
(* Properties of the memset calls of a write                               *)
(***************************************************************************)
\* the addresses the c-th memset of the last write covers
Covered(c) ==
    lastWrite.calls[c].addr .. (lastWrite.calls[c].addr + lastWrite.calls[c].runLen - 1)

\* the memsets of the last write that cover address a
Covering(a) == {c \in 1..Len(lastWrite.calls) : a \in Covered(c)}

\* the byte the last write was asked to store at address a
NewByte(a) == at(lastWrite.data, a - lastWrite.dest)

\* no memset of the last write came back with a null address
LastCompleted == \A c \in 1..Len(lastWrite.calls) : lastWrite.calls[c].ok

\* C28 (only changed bytes are written): in a buffer-source write none of
\* whose memsets failed, on the span overlapping a read-only region, no memset
\* covers a byte whose new value equals its snapshot byte, every byte that
\* differs from its snapshot byte is covered by exactly one memset carrying
\* the new value, and each memset covers bytes of one value.
OnlyChangedBytesWritten ==
    (lastWrite.kind = "buf" /\ LastCompleted)
        => /\ \A k \in 1..Len(lastWrite.regionsBefore) :
                \A a \in WrittenRange \cap RegionRange(lastWrite.regionsBefore[k]) :
                    IF NewByte(a) = SnapshotAt(lastWrite.regionsBefore[k], a)
                    THEN Covering(a) = {}
                    ELSE /\ Cardinality(Covering(a)) = 1
                         /\ \A c \in Covering(a) : lastWrite.calls[c].value = NewByte(a)
           /\ \A c \in 1..Len(lastWrite.calls) :
                \A a \in Covered(c) : NewByte(a) = lastWrite.calls[c].value

\* the calls are the plain decomposition of the data: they follow one
\* another from dest, each carries the bytes it covers, two neighbours differ
\* in value, and they stop at the end of the data or at the first null return
PlainDecomposition ==
    LET calls == lastWrite.calls
        n     == Len(calls)
    IN  /\ n > 0
        /\ calls[1].addr = lastWrite.dest
        /\ \A c \in 1..n :
              /\ calls[c].runLen > 0
              /\ Covered(c) \subseteq WrittenRange
              /\ \A a \in Covered(c) : NewByte(a) = calls[c].value
              /\ c < n => /\ calls[c].ok
                          /\ calls[c + 1].addr = calls[c].addr + calls[c].runLen
                          /\ calls[c + 1].value # calls[c].value
        /\ calls[n].ok =>
              calls[n].addr + calls[n].runLen = lastWrite.dest + Len(lastWrite.data)

OnRoFreeList(freeList, offset, size) ==
    \E i \in DOMAIN freeList :
        /\ freeList[i].offset <= offset
        /\ offset + size <= freeList[i].offset + freeList[i].size

\* C31 (heap-backed realloc): reallocating a heap-backed readonly allocation
\* with the readonly option left out gives a block of the readonly zone whose
\* first min(oldSize, newSize) bytes are those of the old block and which does
\* not overlap the old block; afterwards the old block is on the free list of
\* its Heap and is no allocation any more, while the new block is one.
HeapBackedRealloc ==
    [][(lastHeapOp'.op = "realloc" /\ lastHeapOp' # lastHeapOp) =>
          LET new == lastHeapOp'.addr
              old == lastHeapOp'.old
              n   == copyLen(old.size, lastHeapOp'.size)
          IN  /\ new >= base /\ new + lastHeapOp'.size <= base + roSize
              /\ readAt(mem', new, n) = readAt(mem, old.addr, n)
              /\ new + lastHeapOp'.size <= old.addr \/ old.addr + old.size <= new
              /\ OnRoFreeList(roFreeList', old.addr - base, old.size)
              /\ old \notin live'
              /\ \E a \in live' : a.addr = new /\ a.size = lastHeapOp'.size]_vars

(***************************************************************************)
(* Properties of the register setters                                      *)
(***************************************************************************)
\* C32 (register setters touch only the working cache): setRIP, setRSP and
\* setTargetReg change latestContext only, leaving the hardware registers
\* and savedContext as they are in every state, so that a later release() on
\* a living thread still restores the original Rip, Rsp and pivot register.
SettersTouchCacheOnly ==
    /\ [][(lastResult' = "set" /\ ops' = ops + 1) =>
             /\ hw' = hw
             /\ savedContext' = savedContext]_vars
    /\ []((lastResult \in {"released", "releasedAgain"} /\ alive) =>
             /\ hw.Rip = orig.Rip
             /\ hw.Rsp = orig.Rsp
             /\ hw.Reg = orig.Reg)

(***************************************************************************)
(* Properties of tasks that run side by side                               *)
(***************************************************************************)
\* the addresses task t wrote to
WriterRange(t) == writers[t].dest .. (writers[t].dest + Len(writers[t].data) - 1)

\* C33 (concurrent RO writes): once two writeMemory calls of two tasks over
\* overlapping ranges of one read-only region have both completed, under any
\* interleaving of their memsets, the snapshot of the region equals the
\* remote bytes over the written ranges.
ConcurrentWritesConsistent ==
    ( /\ \A t \in Writers : writers[t].pc = "done"
      /\ WriterRange(1) \cap WriterRange(2) # {} )
        => \A a \in WriterRange(1) \cup WriterRange(2) :
              mem[a] = SnapshotAt(regions[1], a)

\* C34 (calls on one captured thread do not corrupt each other): under any
\* interleaving of two tasks that issue threadCall on one captured thread, a
\* threadCall that returns successfully returns the Rax its own target
\* produced from its own argument; a call started while another is
\* outstanding fails with RipMismatch or leaves that call's result intact.
CallsDoNotCorrupt ==
    \A t \in Callers :
        (callers[t].pc = "done" /\ callers[t].outcome = "ok")
            => callers[t].ret = callers[t].arg

(***************************************************************************)
(* Properties of the suspend counter                                       *)
(***************************************************************************)
\* C35 (suspend balance): until close resets it, suspendCount is never
\* negative and equals the number of successful suspend() calls minus the
\* number of successful resume() calls made through the captured thread; a
\* suspend or resume that fails leaves it unchanged.
SuspendCountBalanced ==
    /\ [](pc # "closed" =>
            /\ suspendCount >= 0
            /\ suspendCount = nSuspendOk - nResumeOk)
    /\ [][(ops' = ops + 1 /\ lastResult' \in {"resumeFailed", "suspendFailed"})
            => suspendCount' = suspendCount]_vars

\* a resume() failed on a thread the captured thread had suspended and
\* resumed before
ResumeFailedWitness ==
    /\ lastResult = "resumeFailed"
    /\ nResumeOk >= 2
    /\ nSuspendOk = nResumeOk

(***************************************************************************)
(* Properties of the allocator layers                                      *)
(***************************************************************************)
\* C36 (invalid sizes are rejected eagerly): a proxy.alloc on an NThreadHeap
\* asked for a size <= 0 fails with the invalid-size error, creating or
\* growing no heap and calling nothing of the CRT.
InvalidSizeRejected ==
    [][(nthOp'.op = "alloc" /\ nthOp'.n = nthOp.n + 1 /\ nthOp'.size <= 0)
          => /\ nthOp'.threw
             /\ ~nthOp'.fallback
             /\ allHeaps(state') = allHeaps(state)
             /\ crtHeap' = crtHeap]_vars

\* the addresses of a block
BlockRange(addr, size) == addr .. (addr + size - 1)

\* the blocks on the two free lists, by address
FreeBlocks ==
    {[addr |-> base + roFreeList[i].offset, size |-> roFreeList[i].size] :
        i \in DOMAIN roFreeList}
    \cup {[addr |-> base + roSize + rwFreeList[i].offset, size |-> rwFreeList[i].size] :
        i \in DOMAIN rwFreeList}

\* C37 (live allocations never overlap): while only live allocations are
\* freed, each once and with its size, a block handed out shares no byte
\* with an allocation that is live, no two live allocations share a byte,
\* no live allocation shares a byte with a free-list block, and every
\* free-list block lies below the bump offset of its zone.
LiveAllocationsDisjoint ==
    /\ [](/\ \A a \in live : \A b \in live \ {a} :
                BlockRange(a.addr, a.size) \cap BlockRange(b.addr, b.size) = {}
          /\ \A a \in live : \A f \in FreeBlocks :
                BlockRange(a.addr, a.size) \cap BlockRange(f.addr, f.size) = {}
          /\ \A i \in DOMAIN roFreeList :
                roFreeList[i].offset + roFreeList[i].size <= roOffset
          /\ \A i \in DOMAIN rwFreeList :
                rwFreeList[i].offset + rwFreeList[i].size <= rwOffset)
    /\ [][(lastHeapOp' # lastHeapOp /\ lastHeapOp'.ok
            /\ lastHeapOp'.op \in {"alloc", "allocReadonly"})
           => \A a \in live :
                BlockRange(a.addr, a.size)
                    \cap BlockRange(lastHeapOp'.addr, lastHeapOp'.size) = {}]_vars

\* an allocation served from a free-list block larger than it, next to
\* another live allocation
SplitServedWitness ==
    /\ lastHeapOp.op = "allocReadonly"
    /\ lastHeapOp.ok
    /\ lastHeapOp.addr + lastHeapOp.size < base + roOffset
    /\ Cardinality(live) >= 2
    /\ Len(roFreeList) >= 1

(***************************************************************************)
(* Properties of the writes of the hardware context                        *)
(***************************************************************************)
\* a step of inject, threadCall, release or close on a living thread that
\* runs applyContext
AppliesContext ==
    \/ pc = "new" /\ pc' = "injectWait"
    \/ pc = "idle" /\ pc' = "callWait"
    \/ pc = "idle" /\ alive /\ ops' = ops + 1
          /\ lastResult' \in {"released", "releasedAgain"}
    \/ pc = "idle" /\ alive /\ pc' = "closed"

\* C38 (the context is written only while suspended): in inject, threadCall
\* and release, applyContext runs while suspendCount >= 1, that is after a
\* suspend that succeeded and before its resume, also when the OS suspend
\* reports failure.
AppliedOnlyWhileSuspended ==
    [][AppliesContext => suspendCount + (nSuspendOk' - nSuspendOk) >= 1]_vars

(***************************************************************************)
(* Properties of the frees that reach the CRT                              *)
(***************************************************************************)
\* the address lies in the block of a Heap of the proxy
InsideLiveHeap(s, addr) ==
    \E i \in DOMAIN allHeaps(s) :
        /\ allHeaps(s)[i].base <= addr
        /\ addr < allHeaps(s)[i].base + allHeaps(s)[i].totalSize

\* C39 (the CRT never frees heap-interior memory): under proxy.alloc,
\* proxy.free and realloc on an NThreadHeap proxy, a pointer freed twice or
\* freed after its reallocation included, no CRT free is issued on an
\* address inside the block of a Heap that is alive.
CrtNeverFreesHeapInterior ==
    [][(nthOp'.op = "free" /\ nthOp'.n = nthOp.n + 1 /\ nthOp'.crt)
          => ~InsideLiveHeap(state, nthOp'.ptr)]_vars

(***************************************************************************)
(* Properties of writes after a reset                                      *)
(***************************************************************************)
\* C40 (writes stay correct after Heap.reset()): after any writes to
\* readonly-zone allocations, resets and new readonly allocations, a write
\* of a buffer to a readonly-zone allocation leaves exactly that buffer to
\* be read from the allocation.
WritesCorrectAfterReset ==
    [][\A a \in live : \A d \in [1..a.size -> Bytes] :
          WriteReadonly(a, d) => readAt(mem', a.addr, a.size) = d]_vars

====
